---- MODULE Spec2Model ----
(***************************************************************************)
(* Model of the computational-geometry functions of imageproc              *)
(* (src/src/geometry.rs): convex_hull (Graham scan), approx_poly_dp        *)
(* (Douglas-Peucker), min_area_rect (rotating calipers) and arc_length;    *)
(* of the FAST corner detector and its helper search_span                  *)
(* (src/src/corners.rs); and of match_template and find_extremes           *)
(* (src/src/template_matching.rs).  orientation is modelled twice: in      *)
(* exact arithmetic, as convex_hull uses it on small coordinates, and in   *)
(* 32-bit arithmetic.                                                      *)
(*                                                                         *)
(* A point is a record [x |-> Int, y |-> Int].  The functions are pure:    *)
(* each specification draws the arguments of one call in its initial       *)
(* state and then runs the call.  convex_hull is run statement by          *)
(* statement (pivot search, sort, collinear pass, scan loop) and           *)
(* fast_corner_score iteration by iteration; the other functions are       *)
(* applied in one step, their loops written as recursive operators.        *)
(* Floating-point values are kept exact: as fractions, as squares of       *)
(* distances, or as the terms of a sum.                                    *)
(***************************************************************************)
EXTENDS Integers, Sequences, FiniteSets, TLC

VARIABLES
    pc,               \* position of the call in progress
    points_slice,     \* convex_hull: the argument
    points,           \* convex_hull: the working copy `points`
    start_point,      \* convex_hull: the pivot
    remaining_points, \* convex_hull: the vector built by the collinear pass
    stack,            \* convex_hull: the scan stack
    next,             \* convex_hull: index of the next element of `for p in points`
    hull,             \* convex_hull: the returned vector
    curve,            \* approx_poly_dp: the argument `curve`
    epsilon,          \* approx_poly_dp: the argument `epsilon`, in units of 1/EpsScale
    closed,           \* approx_poly_dp: the argument `closed`
    degenerate,       \* approx_poly_dp: what the distance to a chord of length 0 is
    approx,           \* approx_poly_dp: the outcome (Pending, Panic or Returned)
    contour,          \* min_area_rect: the argument `contour`
    rect,             \* min_area_rect: the outcome (Pending, Panic or Returned)
    arc,              \* arc_length: the argument `arc`
    arc_closed,       \* arc_length: the argument `closed`
    length,           \* arc_length: the outcome (Pending or Returned)
    image,            \* corners: the argument `image`
    threshold,        \* corners: the argument `threshold`
    px,               \* corners: the argument `x`
    py,               \* corners: the argument `y`
    variant,          \* corners: the argument `variant` ("Nine" or "Twelve")
    is_corner,        \* corners: the outcome of is_corner_fast9 / is_corner_fast12
    score_max,        \* fast_corner_score: the local `max`
    score_min,        \* fast_corner_score: the local `min`
    score,            \* fast_corner_score: the outcome (Pending or Returned)
    match_image,      \* match_template: the argument `image`
    template,         \* match_template: the argument `template`
    method,           \* match_template: the argument `method`
    result,           \* match_template: the outcome (Pending, Panic or Returned)
    extremes_image,   \* find_extremes: the argument `image`
    extremes,         \* find_extremes: the outcome (Pending, Panic or Returned)
    circle_ok,        \* search_span: f applied to each element of `circle`
    span_length,      \* search_span: the argument `length`
    span,             \* search_span: the outcome (Pending, Panic or Returned)
    orient_p,         \* orientation: the argument `p`
    orient_q,         \* orientation: the argument `q`
    orient_r,         \* orientation: the argument `r`
    orient            \* orientation: the outcome (Pending, Panic or Returned)

hullVars == <<points_slice, points, start_point, remaining_points, stack, next, hull>>
dpVars   == <<curve, epsilon, closed, degenerate, approx>>
rectVars == <<contour, rect>>
arcVars  == <<arc, arc_closed, length>>
fastVars == <<image, threshold, px, py, variant, is_corner, score_max, score_min, score>>
matchVars == <<match_image, template, method, result>>
extremesVars == <<extremes_image, extremes>>
imageVars == <<fastVars, matchVars, extremesVars>>
spanVars == <<circle_ok, span_length, span>>
orientVars == <<orient_p, orient_q, orient_r, orient>>
helperVars == <<spanVars, orientVars>>
vars     == <<pc, hullVars, dpVars, rectVars, arcVars, imageVars, helperVars>>

----------------------------------------------------------------------------
(* Bounds of the model *)

\* longest argument of convex_hull drawn from the grid
MaxPoints == 4

\* coordinates of the grid the arguments of convex_hull are drawn from
Coords == {-1, 0, 1}

Point(x, y) == [x |-> x, y |-> y]

Grid == {Point(x, y) : x \in Coords, y \in Coords}

\* all sequences over S of length 0..n
SeqsUpTo(S, n) == UNION {[1..k -> S] : k \in 0..n}

\* the star of tests::convex_hull_points
Star ==
    << Point(100, 20), Point(90, 35), Point(60, 25), Point(90, 40), Point(80, 55),
       Point(101, 50), Point(130, 60), Point(115, 45), Point(140, 30), Point(120, 35) >>

\* the star of tests::convex_hull_points_with_negative_values
StarNeg ==
    << Point(100, -20), Point(90, 5), Point(60, -15), Point(90, 0), Point(80, 15),
       Point(101, 10), Point(130, 20), Point(115, 5), Point(140, -10), Point(120, -5) >>

HullInputs == SeqsUpTo(Grid, MaxPoints) \cup {Star, StarNeg}

NoPoint == Point(0, 0)
\* the outcome of a call that can panic: not called yet, panicked, or
\* returned a value
Pending == [status |-> "pending", value |-> <<>>]
Panic == [status |-> "panic", value |-> <<>>]
Returned(v) == [status |-> "returned", value |-> v]

----------------------------------------------------------------------------
(* orientation and the helpers of convex_hull *)

\* mutant of Orientation: the two turning directions exchanged
OrientationFlipped(p, q, r) ==
    LET val == (q.y - p.y) * (r.x - q.x) - (q.x - p.x) * (r.y - q.y)
    IN  IF val = 0 THEN "Collinear"
        ELSE IF val > 0 THEN "CounterClockwise"
        ELSE "Clockwise"

\* the value `val` of orientation, exact (for the coordinates of the grids
\* below the i32 arithmetic of the code is exact: see Orientation32)
OrientationVal(p, q, r) == (q.y - p.y) * (r.x - q.x) - (q.x - p.x) * (r.y - q.y)

Orientation(p, q, r) ==
    LET val == OrientationVal(p, q, r)
    IN  IF val = 0 THEN "Collinear"
        ELSE IF val > 0 THEN "Clockwise"
        ELSE "CounterClockwise"

\* distance(a, b)^2; distance itself is sqrt of this in f64
DistanceSq(a, b) == (a.x - b.x) * (a.x - b.x) + (a.y - b.y) * (a.y - b.y)

\* distance(p, a) < distance(p, b): sqrt is strictly increasing and exact
\* enough to separate the square roots of two different small integers
DistanceLess(p, a, b) == DistanceSq(p, a) < DistanceSq(p, b)

\* mutant of StartPointScan: the tie-break on x left out
RECURSIVE StartPointScanNoTie(_, _, _)
StartPointScanNoTie(pts, i, pos) ==
    IF i > Len(pts) THEN pos
    ELSE StartPointScanNoTie(pts, i + 1, IF pts[i].y < pts[pos].y THEN i ELSE pos)

\* mutant of StartPointScan: <= for <, so the last of several minima is kept
RECURSIVE StartPointScanLast(_, _, _)
StartPointScanLast(pts, i, pos) ==
    IF i > Len(pts) THEN pos
    ELSE StartPointScanLast(pts, i + 1,
             IF pts[i].y <= pts[pos].y THEN i ELSE pos)

\* the loop that finds start_point_pos (1-based here): strict comparisons,
\* so the first of several equal minima is kept
RECURSIVE StartPointScan(_, _, _)
StartPointScan(pts, i, pos) ==
    IF i > Len(pts) THEN pos
    ELSE LET point == pts[i]
             sp == pts[pos]
         IN  StartPointScan(pts, i + 1,
                 IF point.y < sp.y \/ (point.y = sp.y /\ point.x < sp.x)
                 THEN i ELSE pos)

StartPointPos(pts) == StartPointScan(pts, 2, 1)

\* mutant of SwapRemove: remove(0) without the swap
RemoveFirst(pts, pos) == SubSeq(pts, 2, Len(pts))

\* points.swap(0, start_point_pos); points.remove(0)
SwapRemove(pts, pos) ==
    [i \in 1..(Len(pts) - 1) |-> IF i + 1 = pos THEN pts[1] ELSE pts[i + 1]]

\* mutant of Compare: collinear points ordered by decreasing distance
CompareFarFirst(sp, a, b) ==
    LET o == Orientation(sp, a, b)
    IN  IF o = "Collinear"
        THEN IF DistanceLess(sp, b, a) THEN "Less" ELSE "Greater"
        ELSE IF o = "Clockwise" THEN "Greater"
        ELSE "Less"

\* the comparator closure handed to sort_by
Compare(sp, a, b) ==
    LET o == Orientation(sp, a, b)
    IN  IF o = "Collinear"
        THEN IF DistanceLess(sp, a, b) THEN "Less" ELSE "Greater"
        ELSE IF o = "Clockwise" THEN "Greater"
        ELSE "Less"

\* insert e into the sorted prefix s, moving left while e is Less than the
\* element on its left (sort_by is a stable sort: only Less moves an element)
RECURSIVE InsertTail(_, _, _, _)
InsertTail(sp, s, e, j) ==
    IF j >= 1 /\ Compare(sp, e, s[j]) = "Less"
    THEN InsertTail(sp, s, e, j - 1)
    ELSE SubSeq(s, 1, j) \o <<e>> \o SubSeq(s, j + 1, Len(s))

RECURSIVE SortFrom(_, _, _, _)
SortFrom(sp, pts, i, acc) ==
    IF i > Len(pts) THEN acc
    ELSE SortFrom(sp, pts, i + 1, InsertTail(sp, acc, pts[i], Len(acc)))

SortBy(sp, pts) == SortFrom(sp, pts, 1, <<>>)

\* the peekable loop that builds remaining_points: of a run of points
\* collinear with the pivot only the last is pushed
RECURSIVE CollapseFrom(_, _, _, _)
CollapseFrom(sp, pts, i, acc) ==
    IF i > Len(pts) THEN acc
    ELSE IF i < Len(pts) /\ Orientation(sp, pts[i], pts[i + 1]) = "Collinear"
         THEN CollapseFrom(sp, pts, i + 1, acc)
         ELSE CollapseFrom(sp, pts, i + 1, Append(acc, pts[i]))

CollapseCollinear(sp, pts) == CollapseFrom(sp, pts, 1, <<>>)

\* mutant of PopCond: only a Clockwise turn pops
PopCondKeepCollinear(stk, p) ==
    /\ Len(stk) > 1
    /\ Orientation(stk[Len(stk) - 1], stk[Len(stk)], p) = "Clockwise"

\* the condition of the inner while loop of the scan
PopCond(stk, p) ==
    /\ Len(stk) > 1
    /\ Orientation(stk[Len(stk) - 1], stk[Len(stk)], p) # "CounterClockwise"

\* mutant of Pop: the bottom of the stack removed instead of the top
PopBottom(stk) == SubSeq(stk, 2, Len(stk))

\* stack.pop()
Pop(stk) == SubSeq(stk, 1, Len(stk) - 1)

\* the vector the scan iterates over (`for p in points`)
ScanInput(pts, remaining) == pts

RECURSIVE ScanFrom(_, _, _)
ScanFrom(stk, pts, i) ==
    IF i > Len(pts) THEN stk
    ELSE IF PopCond(stk, pts[i]) THEN ScanFrom(Pop(stk), pts, i)
    ELSE ScanFrom(Append(stk, pts[i]), pts, i + 1)

\* convex_hull as a function of its argument
ConvexHull(pts) ==
    IF Len(pts) = 0 THEN <<>>
    ELSE LET pos == StartPointPos(pts)
             sp == pts[pos]
             sorted == SortBy(sp, SwapRemove(pts, pos))
         IN  ScanFrom(<<sp>>, ScanInput(sorted, CollapseCollinear(sp, sorted)), 1)

----------------------------------------------------------------------------
(* convex_hull, statement by statement *)

HullIdle ==
    /\ points_slice = <<>> /\ points = <<>> /\ start_point = NoPoint
    /\ remaining_points = <<>> /\ stack = <<>> /\ next = 1 /\ hull = <<>>

DpIdle ==
    /\ curve = <<>> /\ epsilon = 1 /\ closed = FALSE
    /\ degenerate = "NaN" /\ approx = Pending

RectIdle == contour = <<>> /\ rect = Pending

ArcIdle == arc = <<>> /\ arc_closed = FALSE /\ length = Pending

\* an image of no pixels
NoImage == [width |-> 0, height |-> 0, data |-> <<>>]

FastIdle ==
    /\ image = NoImage /\ threshold = 0 /\ px = 0 /\ py = 0 /\ variant = "Twelve"
    /\ is_corner = Pending /\ score_max = 0 /\ score_min = 0 /\ score = Pending

MatchIdle ==
    /\ match_image = NoImage /\ template = NoImage
    /\ method = "SumOfSquaredErrors" /\ result = Pending

ExtremesIdle == extremes_image = NoImage /\ extremes = Pending

ImagesIdle == FastIdle /\ MatchIdle /\ ExtremesIdle

SpanIdle == circle_ok = <<>> /\ span_length = 0 /\ span = Pending

OrientIdle ==
    /\ orient_p = NoPoint /\ orient_q = NoPoint /\ orient_r = NoPoint
    /\ orient = Pending

HelpersIdle == SpanIdle /\ OrientIdle

InitHull ==
    /\ pc = "hull_call"
    /\ points_slice \in HullInputs
    /\ points = <<>> /\ start_point = NoPoint /\ remaining_points = <<>>
    /\ stack = <<>> /\ next = 1 /\ hull = <<>>
    /\ DpIdle /\ RectIdle /\ ArcIdle /\ ImagesIdle
    /\ HelpersIdle

\* if points_slice.is_empty() { return Vec::new(); }
HullEmpty ==
    /\ pc = "hull_call"
    /\ Len(points_slice) = 0
    /\ hull' = <<>>
    /\ pc' = "hull_done"
    /\ UNCHANGED <<points_slice, points, start_point, remaining_points, stack, next>>
    /\ UNCHANGED <<dpVars, rectVars, arcVars, helperVars, imageVars>>

\* the pivot search, swap(0, start_point_pos) and remove(0)
HullPivot ==
    /\ pc = "hull_call"
    /\ Len(points_slice) > 0
    /\ LET pos == StartPointPos(points_slice)
       IN  /\ start_point' = points_slice[pos]
           /\ points' = SwapRemove(points_slice, pos)
    /\ pc' = "hull_sort"
    /\ UNCHANGED <<points_slice, remaining_points, stack, next, hull>>
    /\ UNCHANGED <<dpVars, rectVars, arcVars, helperVars, imageVars>>

\* points.sort_by(...)
HullSort ==
    /\ pc = "hull_sort"
    /\ points' = SortBy(start_point, points)
    /\ pc' = "hull_collapse"
    /\ UNCHANGED <<points_slice, start_point, remaining_points, stack, next, hull>>
    /\ UNCHANGED <<dpVars, rectVars, arcVars, helperVars, imageVars>>

\* the loop that fills remaining_points, then `let mut stack = vec![start_point]`
HullCollapse ==
    /\ pc = "hull_collapse"
    /\ remaining_points' = CollapseCollinear(start_point, points)
    /\ stack' = <<start_point>>
    /\ next' = 1
    /\ pc' = "hull_scan"
    /\ UNCHANGED <<points_slice, points, start_point, hull>>
    /\ UNCHANGED <<dpVars, rectVars, arcVars, helperVars, imageVars>>

\* one iteration of the inner while loop: stack.pop()
HullPop ==
    /\ pc = "hull_scan"
    /\ next <= Len(ScanInput(points, remaining_points))
    /\ PopCond(stack, ScanInput(points, remaining_points)[next])
    /\ stack' = Pop(stack)
    /\ UNCHANGED <<pc, points_slice, points, start_point, remaining_points, next, hull>>
    /\ UNCHANGED <<dpVars, rectVars, arcVars, helperVars, imageVars>>

\* the inner loop has ended: stack.push(p)
HullPush ==
    /\ pc = "hull_scan"
    /\ next <= Len(ScanInput(points, remaining_points))
    /\ ~PopCond(stack, ScanInput(points, remaining_points)[next])
    /\ stack' = Append(stack, ScanInput(points, remaining_points)[next])
    /\ next' = next + 1
    /\ UNCHANGED <<pc, points_slice, points, start_point, remaining_points, hull>>
    /\ UNCHANGED <<dpVars, rectVars, arcVars, helperVars, imageVars>>

\* the for loop has ended: return stack
HullReturn ==
    /\ pc = "hull_scan"
    /\ next > Len(ScanInput(points, remaining_points))
    /\ hull' = stack
    /\ pc' = "hull_done"
    /\ UNCHANGED <<points_slice, points, start_point, remaining_points, stack, next>>
    /\ UNCHANGED <<dpVars, rectVars, arcVars, helperVars, imageVars>>

NextHull ==
    \/ HullEmpty
    \/ HullPivot
    \/ HullSort
    \/ HullCollapse
    \/ HullPop
    \/ HullPush
    \/ HullReturn

SpecHull == InitHull /\ [][NextHull]_vars

----------------------------------------------------------------------------
(* approx_poly_dp *)

\* longest curve handed to approx_poly_dp
MaxCurve == 4

\* epsilon is drawn from -1/EpsScale, 0, 1/EpsScale, ..., MaxEpsilon/EpsScale
EpsScale == 2
MaxEpsilon == 4

\* the grid the curves are drawn from
CurveGrid == {Point(x, y) : x \in {0, 1, 2}, y \in {0, 1}}

Epsilons == (0 - 1)..MaxEpsilon

\* a chord whose two end points coincide has no perpendicular: the distance
\* from it is either not a number (0/0, greater than nothing) or the distance
\* from that point
DegenerateOutcomes == {"NaN", "PointDistance"}

\* Line::from_points
LineFromPoints(p1, p2) ==
    [a |-> p1.y - p2.y, b |-> p2.x - p1.x, c |-> p1.x * p2.y - p2.x * p1.y,
     p1 |-> p1]

\* Line::distance_from_point, squared and kept as the fraction n / d:
\* (a x + b y + c)^2 / (a^2 + b^2); nan marks 0/0
DistanceFromPoint(line, p, mode) ==
    LET den == line.a * line.a + line.b * line.b
        num == line.a * p.x + line.b * p.y + line.c
    IN  IF den # 0 THEN [nan |-> FALSE, n |-> num * num, d |-> den]
        ELSE IF mode = "NaN" THEN [nan |-> TRUE, n |-> 0, d |-> 1]
        ELSE [nan |-> FALSE, n |-> DistanceSq(p, line.p1), d |-> 1]

\* the f64 0.0 dmax starts from
ZeroDistance == [nan |-> FALSE, n |-> 0, d |-> 1]

\* d > dmax on two distances (false when either is not a number)
DistanceGreater(d1, d2) ==
    /\ ~d1.nan /\ ~d2.nan
    /\ d1.n * d2.d > d2.n * d1.d

\* dmax > epsilon, for epsilon = eps / EpsScale > 0
ExceedsEpsilon(dmax, eps) ==
    /\ ~dmax.nan
    /\ dmax.n * EpsScale * EpsScale > eps * eps * dmax.d

\* mutant of EpsilonRejected: only a negative epsilon is refused
EpsilonNegative(eps) == eps < 0

\* if epsilon <= 0.0 { panic!(...) }
EpsilonRejected(eps) == eps <= 0

\* the loop over curve.iter().enumerate().skip(1): the index (1-based, so it
\* starts at 1 for the code's 0) and the distance of the farthest point; a
\* later point replaces the farthest only when strictly farther
RECURSIVE FarthestScan(_, _, _, _, _, _)
FarthestScan(cv, line, mode, i, index, dmax) ==
    IF i > Len(cv) THEN [index |-> index, dmax |-> dmax]
    ELSE LET d == DistanceFromPoint(line, cv[i], mode)
         IN  IF DistanceGreater(d, dmax)
             THEN FarthestScan(cv, line, mode, i + 1, i, d)
             ELSE FarthestScan(cv, line, mode, i + 1, index, dmax)

\* mutant of Farthest: the chord drawn from the first point to the second
FarthestFromFirstEdge(cv, mode) ==
    FarthestScan(cv, LineFromPoints(cv[1], cv[2]), mode, 2, 1, ZeroDistance)

Farthest(cv, mode) ==
    FarthestScan(cv, LineFromPoints(cv[1], cv[Len(cv)]), mode, 2, 1, ZeroDistance)

\* mutant of JoinPartials: the pop taken from the second half
JoinPartialsPopSecond(partial1, partial2) == partial1 \o Pop(partial2)

\* partial1.pop(); res.append(&mut partial1); res.append(&mut partial2)
JoinPartials(partial1, partial2) == Pop(partial1) \o partial2

\* res.push(curve[0]); res.push(curve[end])
EndPoints(cv) == <<cv[1], cv[Len(cv)]>>

\* mutant of RecursiveClosed: the flag of the caller handed down
RecursiveClosedThrough(cl) == cl

\* the closed argument of the two recursive calls
RecursiveClosed(cl) == FALSE

\* mutant of CloseResult: the first point dropped instead of the last
CloseResultFirst(res, cl) == IF cl THEN SubSeq(res, 2, Len(res)) ELSE res

\* if closed { res.pop(); }
CloseResult(res, cl) == IF cl THEN Pop(res) ELSE res

\* the body of approx_poly_dp after the check of epsilon, for a non-empty curve
RECURSIVE Simplify(_, _, _, _)
Simplify(cv, eps, cl, mode) ==
    LET far == Farthest(cv, mode)
        res == IF ExceedsEpsilon(far.dmax, eps)
               THEN JoinPartials(
                        Simplify(SubSeq(cv, 1, far.index), eps, RecursiveClosed(cl), mode),
                        Simplify(SubSeq(cv, far.index, Len(cv)), eps, RecursiveClosed(cl), mode))
               ELSE EndPoints(cv)
    IN  CloseResult(res, cl)

\* approx_poly_dp: Panic when epsilon <= 0, and for the empty curve, where
\* curve.len() - 1 overflows or curve[0] is out of bounds
ApproxPolyDp(cv, eps, cl, mode) ==
    IF EpsilonRejected(eps) \/ Len(cv) = 0 THEN Panic
    ELSE Returned(Simplify(cv, eps, cl, mode))

InitDP ==
    /\ pc = "dp_call"
    /\ curve \in SeqsUpTo(CurveGrid, MaxCurve)
    /\ epsilon \in Epsilons
    /\ closed \in BOOLEAN
    /\ degenerate \in DegenerateOutcomes
    /\ approx = Pending
    /\ HullIdle /\ RectIdle /\ ArcIdle /\ ImagesIdle
    /\ HelpersIdle

\* the call panics
DpPanic ==
    /\ pc = "dp_call"
    /\ ApproxPolyDp(curve, epsilon, closed, degenerate) = Panic
    /\ approx' = Panic
    /\ pc' = "dp_done"
    /\ UNCHANGED <<curve, epsilon, closed, degenerate>>
    /\ UNCHANGED <<hullVars, rectVars, arcVars, helperVars, imageVars>>

\* the call returns
DpReturn ==
    /\ pc = "dp_call"
    /\ ApproxPolyDp(curve, epsilon, closed, degenerate) # Panic
    /\ approx' = ApproxPolyDp(curve, epsilon, closed, degenerate)
    /\ pc' = "dp_done"
    /\ UNCHANGED <<curve, epsilon, closed, degenerate>>
    /\ UNCHANGED <<hullVars, rectVars, arcVars, helperVars, imageVars>>

NextDP ==
    \/ DpPanic
    \/ DpReturn

SpecDP == InitDP /\ [][NextDP]_vars

----------------------------------------------------------------------------
(* min_area_rect and rotating_calipers *)
(*                                                                         *)
(* The f64 arithmetic is carried out exactly.  An angle theta in [0, pi/2)  *)
(* is kept as a direction [u, v] with u > 0, v >= 0, so that                *)
(* cos theta = u / L and sin theta = v / L with L = sqrt(u^2 + v^2);        *)
(* a rotated coordinate is kept multiplied by L, an area and a corner       *)
(* coordinate as a fraction with denominator L^2.                           *)

\* longest contour handed to min_area_rect
MaxContour == 3

\* the grid the contours are drawn from
ContourGrid == {Point(x, y) : x \in 0..3, y \in 0..3}

\* the hull of tests::min_area_test
TestHull ==
    << Point(100, 20), Point(140, 30), Point(130, 60), Point(80, 55), Point(60, 25) >>

RectInputs == SeqsUpTo(ContourGrid, MaxContour) \cup {TestHull}

RECURSIVE Gcd(_, _)
Gcd(a, b) == IF b = 0 THEN a ELSE Gcd(b, a % b)

\* the direction (u, v) in lowest terms: the same angle, smaller numbers
Direction(u, v) == [u |-> u \div Gcd(u, v), v |-> v \div Gcd(u, v)]

\* ((edge.y.atan2(edge.x) + PI) % (PI / 2.)).abs() of the edge (dx, dy): the
\* direction of the edge turned by a multiple of 90 degrees into the first
\* quadrant; atan2(0, 0) is 0
EdgeAngle(dx, dy) ==
    IF dx > 0 /\ dy >= 0 THEN Direction(dx, dy)
    ELSE IF dx <= 0 /\ dy > 0 THEN Direction(dy, 0 - dx)
    ELSE IF dx < 0 /\ dy <= 0 THEN Direction(0 - dx, 0 - dy)
    ELSE IF dx >= 0 /\ dy < 0 THEN Direction(0 - dy, dx)
    ELSE Direction(1, 0)

\* two angles of [0, pi/2) are the same number
SameAngle(a1, a2) == a1.u * a2.v = a2.u * a1.v

\* the number of edges points.windows(2) yields
EdgeCount(pts) == Len(pts) - 1

\* points.windows(2).map(...).collect()
EdgeAngles(pts) ==
    [i \in 1..EdgeCount(pts) |->
        LET from == pts[i]
            to == pts[(i % Len(pts)) + 1]
        IN  EdgeAngle(to.x - from.x, to.y - from.y)]

\* Vec::dedup: of consecutive equal elements the first is kept
RECURSIVE DedupFrom(_, _, _)
DedupFrom(as, i, acc) ==
    IF i > Len(as) THEN acc
    ELSE IF Len(acc) > 0 /\ SameAngle(acc[Len(acc)], as[i])
         THEN DedupFrom(as, i + 1, acc)
         ELSE DedupFrom(as, i + 1, Append(acc, as[i]))

Dedup(as) == DedupFrom(as, 1, <<>>)

\* p.to_f64().rotate(rotation), times L: the rotation by -theta
Rotate(p, angle) ==
    [x |-> p.x * angle.u + p.y * angle.v, y |-> p.y * angle.u - p.x * angle.v]

\* Point::new(x, y).invert_rotation(rotation) for x, y given times L: the
\* rotation by +theta, a fraction with denominator L^2 = d
InvertRotation(x, y, angle) ==
    [xn |-> x * angle.u - y * angle.v,
     yn |-> y * angle.u + x * angle.v,
     d |-> angle.u * angle.u + angle.v * angle.v]

SetMin(S) == CHOOSE m \in S : \A e \in S : m <= e
SetMax(S) == CHOOSE m \in S : \A e \in S : m >= e

\* one pass of the loop over edge_angles: the bounding box of the rotated
\* points, its area and its four corners turned back
Candidate(pts, angle) ==
    LET xs == {Rotate(pts[i], angle).x : i \in 1..Len(pts)}
        ys == {Rotate(pts[i], angle).y : i \in 1..Len(pts)}
        min_x == SetMin(xs)
        max_x == SetMax(xs)
        min_y == SetMin(ys)
        max_y == SetMax(ys)
    IN  [area_n |-> (max_x - min_x) * (max_y - min_y),
         area_d |-> angle.u * angle.u + angle.v * angle.v,
         res |-> << InvertRotation(max_x, min_y, angle),
                    InvertRotation(min_x, min_y, angle),
                    InvertRotation(min_x, max_y, angle),
                    InvertRotation(max_x, max_y, angle) >>]

\* min_area = f64::MAX and res = four times (0.0, 0.0) before the loop
NoCandidate ==
    [max |-> TRUE, area_n |-> 0, area_d |-> 1,
     res |-> [i \in 1..4 |-> [xn |-> 0, yn |-> 0, d |-> 1]]]

\* area < min_area
AreaLess(c, best) ==
    \/ best.max
    \/ c.area_n * best.area_d < best.area_n * c.area_d

\* the loop over edge_angles: a candidate replaces the best one only when its
\* area is strictly smaller
RECURSIVE BestFrom(_, _, _, _)
BestFrom(pts, as, i, best) ==
    IF i > Len(as) THEN best
    ELSE LET c == Candidate(pts, as[i])
         IN  IF AreaLess(c, best)
             THEN BestFrom(pts, as, i + 1,
                      [max |-> FALSE, area_n |-> c.area_n, area_d |-> c.area_d,
                       res |-> c.res])
             ELSE BestFrom(pts, as, i + 1, best)

\* mutant of XLess: the comparison turned round, so the sort is descending
XGreater(a, b) == a.xn * b.d > b.xn * a.d

\* a.x < b.x on two corners
XLess(a, b) == a.xn * b.d < b.xn * a.d

\* a.y > b.y on two corners
YGreater(a, b) == a.yn * b.d > b.yn * a.d

\* res.sort_by(...) on x: a stable sort
RECURSIVE InsertByX(_, _, _)
InsertByX(s, e, j) ==
    IF j >= 1 /\ XLess(e, s[j])
    THEN InsertByX(s, e, j - 1)
    ELSE SubSeq(s, 1, j) \o <<e>> \o SubSeq(s, j + 1, Len(s))

RECURSIVE SortByXFrom(_, _, _)
SortByXFrom(res, i, acc) ==
    IF i > Len(res) THEN acc
    ELSE SortByXFrom(res, i + 1, InsertByX(acc, res[i], Len(acc)))

SortByX(res) == SortByXFrom(res, 1, <<>>)

\* f64::floor and f64::ceil of the fraction n / d, d > 0
Floor(n, d) == n \div d
Ceil(n, d) == 0 - ((0 - n) \div d)

\* the choice of i1..i4 (1-based here) and the rounding of the four corners
\* into (TL, TR, BR, BL)
AssignCorners(res) ==
    LET i1 == IF YGreater(res[2], res[1]) THEN 1 ELSE 2
        i2 == IF YGreater(res[4], res[3]) THEN 3 ELSE 4
        i3 == IF YGreater(res[4], res[3]) THEN 4 ELSE 3
        i4 == IF YGreater(res[2], res[1]) THEN 2 ELSE 1
    IN  << Point(Floor(res[i1].xn, res[i1].d), Floor(res[i1].yn, res[i1].d)),
           Point(Ceil(res[i2].xn, res[i2].d), Floor(res[i2].yn, res[i2].d)),
           Point(Ceil(res[i3].xn, res[i3].d), Ceil(res[i3].yn, res[i3].d)),
           Point(Floor(res[i4].xn, res[i4].d), Ceil(res[i4].yn, res[i4].d)) >>

\* the four corners recorded by the loop of rotating_calipers
BestCorners(pts) == BestFrom(pts, Dedup(EdgeAngles(pts)), 1, NoCandidate).res

RotatingCalipers(pts) == AssignCorners(SortByX(BestCorners(pts)))

\* mutant of MinAreaRect: the empty hull answered with four default corners
MinAreaRectNoPanic(ct) ==
    LET h == ConvexHull(ct)
    IN  IF Len(h) = 0 THEN Returned(<<NoPoint, NoPoint, NoPoint, NoPoint>>)
        ELSE IF Len(h) = 1 THEN Returned(<<h[1], h[1], h[1], h[1]>>)
        ELSE IF Len(h) = 2 THEN Returned(<<h[1], h[2], h[2], h[1]>>)
        ELSE Returned(RotatingCalipers(h))

\* mutant of MinAreaRect: every non-empty hull handed to rotating_calipers
MinAreaRectAlwaysCalipers(ct) ==
    LET h == ConvexHull(ct)
    IN  IF Len(h) = 0 THEN Panic
        ELSE Returned(RotatingCalipers(h))

\* min_area_rect
MinAreaRect(ct) ==
    LET h == ConvexHull(ct)
    IN  IF Len(h) = 0 THEN Panic
        ELSE IF Len(h) = 1 THEN Returned(<<h[1], h[1], h[1], h[1]>>)
        ELSE IF Len(h) = 2 THEN Returned(<<h[1], h[2], h[2], h[1]>>)
        ELSE Returned(RotatingCalipers(h))

InitRect ==
    /\ pc = "rect_call"
    /\ contour \in RectInputs
    /\ rect = Pending
    /\ HullIdle /\ DpIdle /\ ArcIdle /\ ImagesIdle
    /\ HelpersIdle

\* 0 => panic!("no points are defined")
RectPanic ==
    /\ pc = "rect_call"
    /\ Len(ConvexHull(contour)) = 0
    /\ rect' = MinAreaRect(contour)
    /\ pc' = "rect_done"
    /\ UNCHANGED <<contour, hullVars, dpVars, arcVars, helperVars, imageVars>>

\* 1 => [hull[0]; 4] and 2 => [hull[0], hull[1], hull[1], hull[0]]
RectDegenerate ==
    /\ pc = "rect_call"
    /\ Len(ConvexHull(contour)) \in {1, 2}
    /\ rect' = MinAreaRect(contour)
    /\ pc' = "rect_done"
    /\ UNCHANGED <<contour, hullVars, dpVars, arcVars, helperVars, imageVars>>

\* _ => rotating_calipers(&hull)
RectCalipers ==
    /\ pc = "rect_call"
    /\ Len(ConvexHull(contour)) >= 3
    /\ rect' = MinAreaRect(contour)
    /\ pc' = "rect_done"
    /\ UNCHANGED <<contour, hullVars, dpVars, arcVars, helperVars, imageVars>>

NextRect ==
    \/ RectPanic
    \/ RectDegenerate
    \/ RectCalipers

SpecRect == InitRect /\ [][NextRect]_vars

----------------------------------------------------------------------------
(* arc_length *)
(*                                                                         *)
(* A length is a sum of distances, each the square root of an integer; it  *)
(* is kept as the sequence of those integers in the order they are added.  *)
(* The empty sequence is the length 0, <<25>> is the length 5.             *)

\* longest arc handed to arc_length
MaxArc == 3

\* the grid the arcs are drawn from
ArcGrid == {Point(x, y) : x \in 0..2, y \in 0..2}

\* the path from (0,0) to (3,4), of length 5
ArcScenario == << Point(0, 0), Point(3, 4) >>

ArcInputs == SeqsUpTo(ArcGrid, MaxArc) \cup {ArcScenario}

\* arc.windows(2).map(|pts| distance(pts[0], pts[1])).sum(): no window for
\* fewer than 2 points
WindowDistances(a) ==
    [i \in 1..(IF Len(a) >= 2 THEN Len(a) - 1 ELSE 0) |-> DistanceSq(a[i], a[i + 1])]

\* mutant of ClosingCounted: the closing edge added from 2 points on
ClosingCountedFromTwo(a, cl) == Len(a) >= 2 /\ cl

\* if arc.len() > 2 && closed
ClosingCounted(a, cl) == Len(a) > 2 /\ cl

\* arc_length
ArcLength(a, cl) ==
    IF ClosingCounted(a, cl)
    THEN Append(WindowDistances(a), DistanceSq(a[1], a[Len(a)]))
    ELSE WindowDistances(a)

InitArc ==
    /\ pc = "arc_call"
    /\ arc \in ArcInputs
    /\ arc_closed \in BOOLEAN
    /\ length = Pending
    /\ HullIdle /\ DpIdle /\ RectIdle /\ ImagesIdle
    /\ HelpersIdle

\* the call returns
ArcReturn ==
    /\ pc = "arc_call"
    /\ length' = Returned(ArcLength(arc, arc_closed))
    /\ pc' = "arc_done"
    /\ UNCHANGED <<arc, arc_closed>>
    /\ UNCHANGED <<hullVars, dpVars, rectVars, helperVars, imageVars>>

NextArc == ArcReturn

SpecArc == InitArc /\ [][NextArc]_vars

----------------------------------------------------------------------------
(* The FAST corner detector: is_corner_fast9, is_corner_fast12, search_span *)
(* and fast_corner_score                                                    *)
(*                                                                         *)
(* An image is a record [width, height, data] with data the pixels in row  *)
(* order; intensities are u8 and the thresholds are computed in i16, which *)
(* holds every sum and difference of two u8 values.                        *)

\* the pixel (x, y) of an image, x and y counted from 0
GetPixel(img, x, y) == img.data[y * img.width + x + 1]

\* the offsets of pixels[0] .. pixels[15] from the centre: the circle of
\* Note [FAST circle labels], clockwise from the top
CircleOffsets ==
    << <<0, -3>>, <<1, -3>>, <<2, -2>>, <<3, -1>>, <<3, 0>>, <<3, 1>>, <<2, 2>>,
       <<1, 3>>, <<0, 3>>, <<-1, 3>>, <<-2, 2>>, <<-3, 1>>, <<-3, 0>>, <<-3, -1>>,
       <<-2, -2>>, <<-1, -3>> >>

\* the array `pixels` (1-based here: Circle(..)[k] is pixels[k - 1])
Circle(img, x, y) ==
    [k \in 1..16 |-> GetPixel(img, x + CircleOffsets[k][1], y + CircleOffsets[k][2])]

\* if x < 3 || y < 3 || x >= width - 3 || y >= height - 3 { return false; }
NearBorder(img, x, y) == x < 3 \/ y < 3 \/ x >= img.width - 3 \/ y >= img.height - 3

\* Option::None for nb_ok_start
None == 0 - 1

\* nb_ko -= 1 on a u8 where the subtraction wraps (0 becomes 255)
WrappingDec(n) == (n - 1) % 256

\* the loop of search_span over the circle; ok[k] is f(&circle[k - 1])
RECURSIVE SearchSpanFrom(_, _, _, _, _, _)
SearchSpanFrom(ok, len, i, nb_ok, nb_ok_start, nb_ko) ==
    IF i > Len(ok) THEN nb_ok + nb_ok_start >= len
    ELSE IF ok[i]
         THEN IF nb_ok + 1 = len THEN TRUE
              ELSE SearchSpanFrom(ok, len, i + 1, nb_ok + 1, nb_ok_start, nb_ko)
         ELSE IF WrappingDec(nb_ko) = 0 THEN FALSE
              ELSE SearchSpanFrom(ok, len, i + 1, 0,
                       IF nb_ok_start = None THEN nb_ok ELSE nb_ok_start,
                       WrappingDec(nb_ko))

\* the loop of search_span reaches `nb_ko -= 1` with nb_ko = 0: the
\* subtraction overflows the u8
RECURSIVE SpanUnderflowsFrom(_, _, _, _, _)
SpanUnderflowsFrom(ok, len, i, nb_ok, nb_ko) ==
    IF i > Len(ok) THEN FALSE
    ELSE IF ok[i]
         THEN IF nb_ok + 1 = len THEN FALSE
              ELSE SpanUnderflowsFrom(ok, len, i + 1, nb_ok + 1, nb_ko)
         ELSE IF nb_ko = 0 THEN TRUE
              ELSE IF WrappingDec(nb_ko) = 0 THEN FALSE
              ELSE SpanUnderflowsFrom(ok, len, i + 1, 0, WrappingDec(nb_ko))

SpanUnderflows(ok, len) ==
    /\ len <= 16
    /\ SpanUnderflowsFrom(ok, len, 1, 0, 16 - len)

\* search_span where the u8 subtraction wraps
SearchSpan(ok, len) ==
    IF len > 16 THEN FALSE
    ELSE SearchSpanFrom(ok, len, 1, 0, None, 16 - len)

\* has_bright_span and has_dark_span
HasBrightSpan(circle, len, thresh) ==
    SearchSpan([k \in 1..16 |-> circle[k] > thresh], len)

HasDarkSpan(circle, len, thresh) ==
    SearchSpan([k \in 1..16 |-> circle[k] < thresh], len)

\* the two early returns of is_corner_fast12 on p0, p8, p4 and p12: the
\* values of `above` and `below` after the second one
QuickTest12(img, t, x, y) ==
    LET c == GetPixel(img, x, y)
        low_thresh == c - t
        high_thresh == c + t
        p0 == GetPixel(img, x, y - 3)
        p8 == GetPixel(img, x, y + 3)
        p4 == GetPixel(img, x + 3, y)
        p12 == GetPixel(img, x - 3, y)
        above0 == p0 > high_thresh /\ p8 > high_thresh
        below0 == p0 < low_thresh /\ p8 < low_thresh
    IN  [above |-> above0 /\ (p4 > high_thresh \/ p12 > high_thresh),
         below |-> below0 /\ (p4 < low_thresh \/ p12 < low_thresh)]

\* is_corner_fast12
IsCornerFast12(img, t, x, y) ==
    IF NearBorder(img, x, y) THEN FALSE
    ELSE LET q == QuickTest12(img, t, x, y)
             c == GetPixel(img, x, y)
         IN  IF ~q.above /\ ~q.below THEN FALSE
             ELSE IF q.above THEN HasBrightSpan(Circle(img, x, y), 12, c + t)
             ELSE HasDarkSpan(Circle(img, x, y), 12, c - t)

\* the early return of is_corner_fast9 on p0, p4, p8 and p12
QuickTest9(img, t, x, y) ==
    LET c == GetPixel(img, x, y)
        low_thresh == c - t
        high_thresh == c + t
        p0 == GetPixel(img, x, y - 3)
        p8 == GetPixel(img, x, y + 3)
        p4 == GetPixel(img, x + 3, y)
        p12 == GetPixel(img, x - 3, y)
    IN  [above |-> \/ (p0 > high_thresh /\ p4 > high_thresh)
                   \/ (p4 > high_thresh /\ p8 > high_thresh)
                   \/ (p8 > high_thresh /\ p12 > high_thresh)
                   \/ (p12 > high_thresh /\ p0 > high_thresh),
         below |-> \/ (p0 < low_thresh /\ p4 < low_thresh)
                   \/ (p4 < low_thresh /\ p8 < low_thresh)
                   \/ (p8 < low_thresh /\ p12 < low_thresh)
                   \/ (p12 < low_thresh /\ p0 < low_thresh)]

\* is_corner_fast9
IsCornerFast9(img, t, x, y) ==
    IF NearBorder(img, x, y) THEN FALSE
    ELSE LET q == QuickTest9(img, t, x, y)
             c == GetPixel(img, x, y)
         IN  IF ~q.above /\ ~q.below THEN FALSE
             ELSE \/ (q.above /\ HasBrightSpan(Circle(img, x, y), 9, c + t))
                  \/ (q.below /\ HasDarkSpan(Circle(img, x, y), 9, c - t))

\* match variant { Fast::Nine => is_corner_fast9(..), Fast::Twelve => is_corner_fast12(..) }
IsCorner(img, t, x, y, v) ==
    IF v = "Nine" THEN IsCornerFast9(img, t, x, y) ELSE IsCornerFast12(img, t, x, y)

\* let probe = if max == min + 1 { max } else { mean }
Probe(max, min) == IF max = min + 1 THEN max ELSE (max + min) \div 2

\* the loop of fast_corner_score
RECURSIVE ScoreLoop(_, _, _, _, _, _)
ScoreLoop(img, x, y, v, max, min) ==
    IF max = min THEN max
    ELSE LET probe == Probe(max, min)
         IN  IF IsCorner(img, probe, x, y, v)
             THEN ScoreLoop(img, x, y, v, max, probe)
             ELSE ScoreLoop(img, x, y, v, probe - 1, min)

\* fast_corner_score: max = 255u8, min = threshold
FastCornerScore(img, t, x, y, v) == ScoreLoop(img, x, y, v, 255, t)

\* a 7 x 7 image, as the tests build them with ImageBuffer::from_raw(7, 7, ..)
Image7(data) == [width |-> 7, height |-> 7, data |-> data]

\* the image of test_is_corner_fast12_12_contiguous_darker_pixels
DarkCorner12 ==
    Image7(<< 10, 10,  0,  0,  0, 10, 10,
              10,  0, 10, 10, 10,  0, 10,
               0, 10, 10, 10, 10, 10, 10,
               0, 10, 10, 10, 10, 10, 10,
               0, 10, 10, 10, 10, 10, 10,
              10,  0, 10, 10, 10, 10, 10,
              10, 10,  0,  0,  0, 10, 10 >>)

\* the image of test_is_corner_fast12_12_contiguous_lighter_pixels
LightCorner12 ==
    Image7(<<  0,  0, 10, 10, 10,  0,  0,
               0, 10,  0,  0,  0, 10,  0,
              10,  0,  0,  0,  0,  0,  0,
              10,  0,  0,  0,  0,  0,  0,
              10,  0,  0,  0,  0,  0,  0,
               0, 10,  0,  0,  0,  0,  0,
               0,  0, 10, 10, 10,  0,  0 >>)

\* the image of test_is_corner_fast12_12_noncontiguous
NonContiguous12 ==
    Image7(<< 10, 10,  0,  0,  0, 10, 10,
              10,  0, 10, 10, 10,  0, 10,
               0, 10, 10, 10, 10, 10, 10,
               0, 10, 10, 10, 10, 10, 10,
              10, 10, 10, 10, 10, 10,  0,
              10,  0, 10, 10, 10, 10, 10,
              10, 10,  0,  0,  0, 10, 10 >>)

\* the image of test_is_corner_fast9_9_contiguous_darker_pixels
DarkCorner9 ==
    Image7(<< 10, 10,  0,  0,  0, 10, 10,
              10,  0, 10, 10, 10,  0, 10,
               0, 10, 10, 10, 10, 10, 10,
               0, 10, 10, 10, 10, 10, 10,
               0, 10, 10, 10, 10, 10, 10,
              10,  0, 10, 10, 10, 10, 10,
              10, 10, 10, 10, 10, 10, 10 >>)

\* the image of test_corner_score_fast9: 8 pixels with an intensity diff of
\* 20, the others with a diff of 10
ScoreImage9 ==
    Image7(<< 10, 10,  0,  0,  0, 10, 10,
              10,  0, 10, 10, 10,  0, 10,
               0, 10, 10, 10, 10, 10, 10,
               0, 10, 10, 20, 10, 10, 10,
               0, 10, 10, 10, 10, 10, 10,
              10, 10, 10, 10, 10, 10, 10,
              10, 10, 10, 10, 10, 10, 10 >>)

TestImages == {DarkCorner12, LightCorner12, NonContiguous12, DarkCorner9, ScoreImage9}

\* for each pixel of a 7 x 7 image in row order, its place on the circle
\* around (3, 3), or 0 off the circle
CircleIndex ==
    [n \in 1..49 |->
        LET x == (n - 1) % 7
            y == (n - 1) \div 7
            on == {k \in 1..16 : CircleOffsets[k] = <<x - 3, y - 3>>}
        IN  IF on = {} THEN 0 ELSE CHOOSE k \in on : TRUE]

\* the 7 x 7 image with the intensity c at the centre (3, 3) and everywhere off
\* the circle, and circ[k] at the k-th pixel of the circle
ImageFromCircle(c, circ) ==
    Image7([n \in 1..49 |-> IF CircleIndex[n] = 0 THEN c ELSE circ[CircleIndex[n]]])

\* the intensities the circles of is_corner_fast9 / is_corner_fast12 are drawn from
FastLevels == {0, 10}

\* every circle of two intensities around a centre of either intensity
FastImages == {ImageFromCircle(c, circ) : c \in FastLevels, circ \in [1..16 -> FastLevels]}

Variants == {"Nine", "Twelve"}

ScoreIdle == score_max = 0 /\ score_min = 0 /\ score = Pending

InitFast ==
    /\ pc = "fast_call"
    /\ \/ /\ image \in FastImages
          /\ threshold = 8
          /\ px = 3 /\ py = 3
          /\ variant = "Twelve"
       \/ /\ image \in TestImages
          /\ threshold \in {8, 15}
          /\ px \in {3, 1}
          /\ py = px
          /\ variant \in Variants
    /\ is_corner = Pending
    /\ ScoreIdle
    /\ HullIdle /\ DpIdle /\ RectIdle /\ ArcIdle /\ MatchIdle /\ ExtremesIdle
    /\ HelpersIdle

\* `above` or `below` holds after the early returns on p0, p4, p8 and p12
QuickPassed(img, t, x, y, v) ==
    LET q == IF v = "Nine" THEN QuickTest9(img, t, x, y) ELSE QuickTest12(img, t, x, y)
    IN  q.above \/ q.below

\* the pixel is within 3 of the border: return false
FastBorder ==
    /\ pc = "fast_call"
    /\ NearBorder(image, px, py)
    /\ is_corner' = Returned(IsCorner(image, threshold, px, py, variant))
    /\ pc' = "fast_done"
    /\ UNCHANGED <<image, threshold, px, py, variant, score_max, score_min, score>>
    /\ UNCHANGED <<hullVars, dpVars, rectVars, arcVars, helperVars, matchVars, extremesVars>>

\* if !above && !below { return false; }
FastQuickReject ==
    /\ pc = "fast_call"
    /\ ~NearBorder(image, px, py)
    /\ ~QuickPassed(image, threshold, px, py, variant)
    /\ is_corner' = Returned(IsCorner(image, threshold, px, py, variant))
    /\ pc' = "fast_done"
    /\ UNCHANGED <<image, threshold, px, py, variant, score_max, score_min, score>>
    /\ UNCHANGED <<hullVars, dpVars, rectVars, arcVars, helperVars, matchVars, extremesVars>>

\* the 16 pixels are read and the span searched
FastSpan ==
    /\ pc = "fast_call"
    /\ ~NearBorder(image, px, py)
    /\ QuickPassed(image, threshold, px, py, variant)
    /\ is_corner' = Returned(IsCorner(image, threshold, px, py, variant))
    /\ pc' = "fast_done"
    /\ UNCHANGED <<image, threshold, px, py, variant, score_max, score_min, score>>
    /\ UNCHANGED <<hullVars, dpVars, rectVars, arcVars, helperVars, matchVars, extremesVars>>

NextFast ==
    \/ FastBorder
    \/ FastQuickReject
    \/ FastSpan

SpecFast == InitFast /\ [][NextFast]_vars

\* the circle with a section of len pixels from place s on: the last pixel
\* of the section has the intensity weak, the others of the section the
\* intensity strong, the pixels off the section the intensity rest
SectionCircle(s, len, strong, weak, rest) ==
    [k \in 1..16 |->
        LET d == (k - 1 - s + 16) % 16
        IN  IF d < len - 1 THEN strong
            ELSE IF d = len - 1 THEN weak
            ELSE rest]

\* the lengths of the sections of the images fast_corner_score is run on
SectionLengths == {8, 9, 10, 12, 13, 16}

\* darker sections around a centre of 20 and brighter ones around a centre of
\* 0, the weakest pixel as far from the centre as the others or half as far
ScoreImages ==
    {ImageFromCircle(20, SectionCircle(s, len, 0, weak, 20)) :
        s \in 0..15, len \in SectionLengths, weak \in {0, 10}}
    \cup
    {ImageFromCircle(0, SectionCircle(s, len, 20, weak, 0)) :
        s \in 0..15, len \in SectionLengths, weak \in {10, 20}}
    \cup TestImages

\* the thresholds fast_corner_score is started from
ScoreThresholds == {0, 5, 9, 10, 19, 20, 254, 255}

InitScore ==
    /\ pc = "score_call"
    /\ image \in ScoreImages
    /\ threshold \in ScoreThresholds
    /\ px = 3 /\ py = 3
    /\ variant \in Variants
    /\ is_corner = Pending
    /\ ScoreIdle
    /\ HullIdle /\ DpIdle /\ RectIdle /\ ArcIdle /\ MatchIdle /\ ExtremesIdle
    /\ HelpersIdle

\* let mut max = 255u8; let mut min = threshold;
ScoreCall ==
    /\ pc = "score_call"
    /\ score_max' = 255
    /\ score_min' = threshold
    /\ pc' = "score_loop"
    /\ UNCHANGED <<image, threshold, px, py, variant, is_corner, score>>
    /\ UNCHANGED <<hullVars, dpVars, rectVars, arcVars, helperVars, matchVars, extremesVars>>

\* if max == min { return max; }
ScoreReturn ==
    /\ pc = "score_loop"
    /\ score_max = score_min
    /\ score' = Returned(score_max)
    /\ pc' = "score_done"
    /\ UNCHANGED <<image, threshold, px, py, variant, is_corner, score_max, score_min>>
    /\ UNCHANGED <<hullVars, dpVars, rectVars, arcVars, helperVars, matchVars, extremesVars>>

\* the probe is a corner: min = probe
ScoreProbeCorner ==
    /\ pc = "score_loop"
    /\ score_max # score_min
    /\ LET probe == Probe(score_max, score_min)
       IN  /\ IsCorner(image, probe, px, py, variant)
           /\ is_corner' = Returned(TRUE)
           /\ score_min' = probe
    /\ UNCHANGED <<pc, image, threshold, px, py, variant, score_max, score>>
    /\ UNCHANGED <<hullVars, dpVars, rectVars, arcVars, helperVars, matchVars, extremesVars>>

\* the probe is no corner: max = probe - 1
ScoreProbeNoCorner ==
    /\ pc = "score_loop"
    /\ score_max # score_min
    /\ LET probe == Probe(score_max, score_min)
       IN  /\ ~IsCorner(image, probe, px, py, variant)
           /\ is_corner' = Returned(FALSE)
           /\ score_max' = probe - 1
    /\ UNCHANGED <<pc, image, threshold, px, py, variant, score_min, score>>
    /\ UNCHANGED <<hullVars, dpVars, rectVars, arcVars, helperVars, matchVars, extremesVars>>

NextScore ==
    \/ ScoreCall
    \/ ScoreReturn
    \/ ScoreProbeCorner
    \/ ScoreProbeNoCorner

SpecScore == InitScore /\ [][NextScore]_vars

----------------------------------------------------------------------------
(* search_span on its own *)
(*                                                                         *)
(* The circle is kept as the 16 values of f on its elements.  A build with *)
(* overflow checks panics where the u8 subtraction overflows, a build      *)
(* without them wraps: both outcomes are possible.                         *)

\* the values of `length` handed to search_span: every section length of a
\* circle of 16, and one beyond
SpanLengths == 1..17

SpanCircles == [1..16 -> BOOLEAN]

InitSpan ==
    /\ pc = "span_call"
    /\ circle_ok \in SpanCircles
    /\ span_length \in SpanLengths
    /\ span = Pending
    /\ OrientIdle
    /\ HullIdle /\ DpIdle /\ RectIdle /\ ArcIdle /\ ImagesIdle

\* the call returns (where the subtraction overflows: in a build that wraps)
SpanReturn ==
    /\ pc = "span_call"
    /\ span' = Returned(SearchSpan(circle_ok, span_length))
    /\ pc' = "span_done"
    /\ UNCHANGED <<circle_ok, span_length>>
    /\ UNCHANGED <<hullVars, dpVars, rectVars, arcVars, imageVars, orientVars>>

\* the subtraction overflows in a build that checks: the call panics
SpanPanic ==
    /\ pc = "span_call"
    /\ SpanUnderflows(circle_ok, span_length)
    /\ span' = Panic
    /\ pc' = "span_done"
    /\ UNCHANGED <<circle_ok, span_length>>
    /\ UNCHANGED <<hullVars, dpVars, rectVars, arcVars, imageVars, orientVars>>

NextSpan ==
    \/ SpanReturn
    \/ SpanPanic

SpecSpan == InitSpan /\ [][NextSpan]_vars

----------------------------------------------------------------------------
(* orientation in 32-bit arithmetic *)
(*                                                                         *)
(* A product of two coordinate differences can exceed 32 bits.  Such a      *)
(* value is kept as two digits, [hi, lo] standing for hi * 65536 + lo with  *)
(* 0 <= lo < 65536; an i32 is a value with -32768 <= hi <= 32767.  A build  *)
(* with overflow checks panics where an operation overflows, a build        *)
(* without them wraps: both outcomes are possible.  The coordinates are     *)
(* taken within -32767..32767, where the four differences cannot overflow.  *)

\* largest coordinate magnitude for which the value is held to be exact
MaxCoord == 16383

\* the coordinates handed to orientation: the ends of that range, and the
\* ends of a range twice as wide, where products overflow
OrientCoords == {0 - 32767, 0 - MaxCoord, 0, MaxCoord, 32767}

OrientPoints == {Point(x, y) : x \in OrientCoords, y \in OrientCoords}

\* a * b for two differences a and b (each of magnitude below 65536), in
\* full, as two digits
MulWide(a, b) ==
    LET t == (a \div 256) * b
        u == (a % 256) * b
        low == (t % 256) * 256 + (u % 65536)
    IN  [hi |-> (t \div 256) + (u \div 65536) + (low \div 65536),
         lo |-> low % 65536]

\* x - y on two-digit values, in full
SubWide(x, y) ==
    LET low == x.lo - y.lo
    IN  [hi |-> x.hi - y.hi + (low \div 65536), lo |-> low % 65536]

\* the value is an i32
Fits32(w) == (0 - 32768) <= w.hi /\ w.hi <= 32767

\* mutant of Wrap32: the arithmetic carried out in 16 bits
Wrap16(w) == [hi |-> IF w.lo >= 32768 THEN 0 - 1 ELSE 0, lo |-> w.lo]

\* the i32 a wrapping operation leaves: the value modulo 2^32
Wrap32(w) == [hi |-> ((w.hi + 32768) % 65536) - 32768, lo |-> w.lo]

\* an i32 as a number
ToInt(w) == w.hi * 65536 + w.lo

\* the two products and their difference as the wrapping i32 operations
\* compute them
ProductLeft(p, q, r) == Wrap32(MulWide(q.y - p.y, r.x - q.x))
ProductRight(p, q, r) == Wrap32(MulWide(q.x - p.x, r.y - q.y))
OrientationVal32(p, q, r) ==
    Wrap32(SubWide(ProductLeft(p, q, r), ProductRight(p, q, r)))

\* one of the three operations overflows the i32
OrientationOverflows(p, q, r) ==
    \/ ~Fits32(MulWide(q.y - p.y, r.x - q.x))
    \/ ~Fits32(MulWide(q.x - p.x, r.y - q.y))
    \/ ~Fits32(SubWide(ProductLeft(p, q, r), ProductRight(p, q, r)))

\* match val.cmp(&0)
Orientation32(p, q, r) ==
    LET val == ToInt(OrientationVal32(p, q, r))
    IN  [val |-> val,
         orientation |-> IF val = 0 THEN "Collinear"
                         ELSE IF val > 0 THEN "Clockwise"
                         ELSE "CounterClockwise"]

InitOrient ==
    /\ pc = "orient_call"
    /\ orient_p \in OrientPoints
    /\ orient_q \in OrientPoints
    /\ orient_r \in OrientPoints
    /\ orient = Pending
    /\ SpanIdle
    /\ HullIdle /\ DpIdle /\ RectIdle /\ ArcIdle /\ ImagesIdle

\* the call returns (where an operation overflows: in a build that wraps)
OrientReturn ==
    /\ pc = "orient_call"
    /\ orient' = Returned(Orientation32(orient_p, orient_q, orient_r))
    /\ pc' = "orient_done"
    /\ UNCHANGED <<orient_p, orient_q, orient_r>>
    /\ UNCHANGED <<hullVars, dpVars, rectVars, arcVars, imageVars, spanVars>>

\* an operation overflows in a build that checks: the call panics
OrientPanic ==
    /\ pc = "orient_call"
    /\ OrientationOverflows(orient_p, orient_q, orient_r)
    /\ orient' = Panic
    /\ pc' = "orient_done"
    /\ UNCHANGED <<orient_p, orient_q, orient_r>>
    /\ UNCHANGED <<hullVars, dpVars, rectVars, arcVars, imageVars, spanVars>>

NextOrient ==
    \/ OrientReturn
    \/ OrientPanic

SpecOrient == InitOrient /\ [][NextOrient]_vars

----------------------------------------------------------------------------
(* match_template and find_extremes *)
(*                                                                         *)
(* The images have one channel.  A score is kept as the record             *)
(* [num, norm_sq] for the f32 value num / sqrt(norm_sq); norm_sq is 1 when  *)
(* the score is not divided by a normalization term.                       *)

\* largest width and height of the images handed to match_template
MaxSide == 5

\* GrayImage::new(w, h): every pixel 0
ZeroImage(w, h) == [width |-> w, height |-> h, data |-> [n \in 1..(w * h) |-> 0]]

\* the image and the template of tests::match_template_sum_of_squared_errors
MatchTestImage == [width |-> 3, height |-> 3, data |-> <<1, 4, 2, 2, 1, 3, 3, 3, 4>>]
MatchTestTemplate == [width |-> 2, height |-> 2, data |-> <<1, 2, 3, 4>>]

MatchImages == {ZeroImage(w, h) : w \in 1..MaxSide, h \in 1..MaxSide} \cup {MatchTestImage}
MatchTemplates == {ZeroImage(w, h) : w \in 1..MaxSide, h \in 1..MaxSide} \cup {MatchTestTemplate}

\* enum MatchTemplateMethod
Methods ==
    {"SumOfSquaredErrors", "SumOfSquaredErrorsNormalized",
     "CrossCorrelation", "CrossCorrelationNormalized"}

ShouldNormalize(m) == m \in {"SumOfSquaredErrorsNormalized", "CrossCorrelationNormalized"}

\* the sum of the elements of a sequence of numbers
RECURSIVE SumSeq(_, _)
SumSeq(q, i) == IF i > Len(q) THEN 0 ELSE q[i] + SumSeq(q, i + 1)

\* the loops over dy and dx: the score of the template laid at (x, y)
RawScore(img, tpl, m, x, y) ==
    SumSeq([n \in 1..(tpl.width * tpl.height) |->
               LET dx == (n - 1) % tpl.width
                   dy == (n - 1) \div tpl.width
                   image_value == GetPixel(img, x + dx, y + dy)
                   template_value == GetPixel(tpl, dx, dy)
               IN  IF m \in {"SumOfSquaredErrors", "SumOfSquaredErrorsNormalized"}
                   THEN (image_value - template_value) * (image_value - template_value)
                   ELSE image_value * template_value], 1)

\* sum_squares(template)
SumSquares(tpl) == SumSeq([n \in 1..(tpl.width * tpl.height) |-> tpl.data[n] * tpl.data[n]], 1)

\* normalization_term(..), squared: the sum of the squares of the image over
\* the region of the template at (x, y), times template_squared_sum
NormalizationTermSq(img, tpl, x, y) ==
    SumSeq([n \in 1..(tpl.width * tpl.height) |->
               LET v == GetPixel(img, x + ((n - 1) % tpl.width), y + ((n - 1) \div tpl.width))
               IN  v * v], 1) * SumSquares(tpl)

\* the score put at (x, y): divided by the normalization term when the method
\* normalizes and the term is > 0
MatchScore(img, tpl, m, x, y) ==
    LET norm_sq == NormalizationTermSq(img, tpl, x, y)
    IN  [num |-> RawScore(img, tpl, m, x, y),
         norm_sq |-> IF ShouldNormalize(m) /\ norm_sq > 0 THEN norm_sq ELSE 1]

\* mutant of SizesAccepted: the template has to be strictly smaller
SizesAcceptedStrict(img, tpl) == img.width > tpl.width /\ img.height > tpl.height

\* the two assert!s on the dimensions
SizesAccepted(img, tpl) == img.width >= tpl.width /\ img.height >= tpl.height

\* match_template
MatchTemplate(img, tpl, m) ==
    IF ~SizesAccepted(img, tpl) THEN Panic
    ELSE LET w == img.width - tpl.width + 1
             h == img.height - tpl.height + 1
         IN  Returned([width |-> w, height |-> h,
                       data |-> [n \in 1..(w * h) |->
                                    MatchScore(img, tpl, m, (n - 1) % w, (n - 1) \div w)]])

InitMatch ==
    /\ pc = "match_call"
    /\ match_image \in MatchImages
    /\ template \in MatchTemplates
    /\ method \in Methods
    /\ result = Pending
    /\ HullIdle /\ DpIdle /\ RectIdle /\ ArcIdle /\ FastIdle /\ ExtremesIdle
    /\ HelpersIdle

\* one of the two assert!s fails
MatchPanic ==
    /\ pc = "match_call"
    /\ ~SizesAccepted(match_image, template)
    /\ result' = MatchTemplate(match_image, template, method)
    /\ pc' = "match_done"
    /\ UNCHANGED <<match_image, template, method>>
    /\ UNCHANGED <<hullVars, dpVars, rectVars, arcVars, helperVars, fastVars, extremesVars>>

\* the result image is filled and returned
MatchReturn ==
    /\ pc = "match_call"
    /\ SizesAccepted(match_image, template)
    /\ result' = MatchTemplate(match_image, template, method)
    /\ pc' = "match_done"
    /\ UNCHANGED <<match_image, template, method>>
    /\ UNCHANGED <<hullVars, dpVars, rectVars, arcVars, helperVars, fastVars, extremesVars>>

NextMatch ==
    \/ MatchPanic
    \/ MatchReturn

SpecMatch == InitMatch /\ [][NextMatch]_vars

\* largest width and height of the images handed to find_extremes
MaxExtent == 2

\* the intensities of those images
ExtremeLevels == {0, 1, 2}

\* the image of tests::test_find_extremes
ExtremesTestImage == [width |-> 4, height |-> 2, data |-> <<10, 7, 8, 1, 9, 15, 4, 2>>]

\* Image::new(w, 0) and Image::new(0, h): images of no pixels
EmptyImages ==
    {[width |-> w, height |-> 0, data |-> <<>>] : w \in 0..MaxExtent}
    \cup {[width |-> 0, height |-> h, data |-> <<>>] : h \in 0..MaxExtent}

ExtremesImages ==
    UNION {{[width |-> w, height |-> h, data |-> d] : d \in [1..(w * h) -> ExtremeLevels]} :
              w \in 1..MaxExtent, h \in 1..MaxExtent}
    \cup EmptyImages \cup {ExtremesTestImage}

\* the loop over image.enumerate_pixels(): the pixels in row order, (x, y, p)
\* for the n-th one; strict comparisons, so the first of several equal
\* extremes met is kept
RECURSIVE ExtremesScan(_, _, _)
ExtremesScan(img, n, e) ==
    IF n > img.width * img.height THEN e
    ELSE LET x == (n - 1) % img.width
             y == (n - 1) \div img.width
             p == GetPixel(img, x, y)
             lower == p < e.min_value
             higher == p > e.max_value
         IN  ExtremesScan(img, n + 1,
                 [max_value |-> IF higher THEN p ELSE e.max_value,
                  min_value |-> IF lower THEN p ELSE e.min_value,
                  max_value_location |-> IF higher THEN <<x, y>> ELSE e.max_value_location,
                  min_value_location |-> IF lower THEN <<x, y>> ELSE e.min_value_location])

\* find_extremes
FindExtremes(img) ==
    IF ~(img.width > 0 /\ img.height > 0) THEN Panic
    ELSE Returned(ExtremesScan(img, 1,
             [max_value |-> GetPixel(img, 0, 0), min_value |-> GetPixel(img, 0, 0),
              max_value_location |-> <<0, 0>>, min_value_location |-> <<0, 0>>]))

InitExtremes ==
    /\ pc = "extremes_call"
    /\ extremes_image \in ExtremesImages
    /\ extremes = Pending
    /\ HullIdle /\ DpIdle /\ RectIdle /\ ArcIdle /\ FastIdle /\ MatchIdle
    /\ HelpersIdle

\* assert!(image.width() > 0 && image.height() > 0) fails
ExtremesPanic ==
    /\ pc = "extremes_call"
    /\ ~(extremes_image.width > 0 /\ extremes_image.height > 0)
    /\ extremes' = FindExtremes(extremes_image)
    /\ pc' = "extremes_done"
    /\ UNCHANGED extremes_image
    /\ UNCHANGED <<hullVars, dpVars, rectVars, arcVars, helperVars, fastVars, matchVars>>

\* the pixels are scanned and the Extremes returned
ExtremesReturn ==
    /\ pc = "extremes_call"
    /\ extremes_image.width > 0 /\ extremes_image.height > 0
    /\ extremes' = FindExtremes(extremes_image)
    /\ pc' = "extremes_done"
    /\ UNCHANGED extremes_image
    /\ UNCHANGED <<hullVars, dpVars, rectVars, arcVars, helperVars, fastVars, matchVars>>

NextExtremes ==
    \/ ExtremesPanic
    \/ ExtremesReturn

SpecExtremes == InitExtremes /\ [][NextExtremes]_vars

----------------------------------------------------------------------------
(* Vocabulary of the properties of convex_hull *)

Range(s) == {s[i] : i \in 1..Len(s)}

\* the successor of index i on a cycle of n vertices
Succ(i, n) == (i % n) + 1

\* p lies on the closed segment from a to b
OnSegment(p, a, b) ==
    /\ OrientationVal(a, b, p) = 0
    /\ (a.x <= p.x /\ p.x <= b.x) \/ (b.x <= p.x /\ p.x <= a.x)
    /\ (a.y <= p.y /\ p.y <= b.y) \/ (b.y <= p.y /\ p.y <= a.y)

\* p lies in the convex hull of a, b and c (a triangle, or a segment when they
\* are collinear)
InTriangle(p, a, b, c) ==
    IF OrientationVal(a, b, c) = 0
    THEN OnSegment(p, a, b) \/ OnSegment(p, b, c) \/ OnSegment(p, a, c)
    ELSE \/ /\ OrientationVal(a, b, p) >= 0
            /\ OrientationVal(b, c, p) >= 0
            /\ OrientationVal(c, a, p) >= 0
         \/ /\ OrientationVal(a, b, p) <= 0
            /\ OrientationVal(b, c, p) <= 0
            /\ OrientationVal(c, a, p) <= 0

\* p is an extreme point of the set S: it is not in the convex hull of the
\* other points (in the plane three of them are enough)
Extreme(p, S) ==
    LET T == S \ {p}
    IN  ~ \E a \in T, b \in T, c \in T : InTriangle(p, a, b, c)

ExtremePoints(S) == {p \in S : Extreme(p, S)}

\* every consecutive triple of the cycle h turns counterclockwise
ConvexCycle(h) ==
    LET n == Len(h)
    IN  \A i \in 1..n :
            Orientation(h[i], h[Succ(i, n)], h[Succ(Succ(i, n), n)]) = "CounterClockwise"

\* the minimum of S in the order (y, x)
IsPivotOf(p, S) ==
    /\ p \in S
    /\ \A q \in S : p.y < q.y \/ (p.y = q.y /\ p.x <= q.x)

\* all orderings of the sequence s
Orderings(s) ==
    {[i \in 1..Len(s) |-> s[f[i]]] : f \in Permutations(1..Len(s))}

HullDone == pc = "hull_done"

\* the statement-by-statement run returns what the function ConvexHull returns
HullAgrees == HullDone => hull = ConvexHull(points_slice)

----------------------------------------------------------------------------
(* Properties of convex_hull *)

\* C1: the returned hull has fewer than 3 points, or every consecutive vertex
\* triple (h[i], h[i+1], h[i+2]), indices modulo the length, is
\* CounterClockwise under the orientation test.
C1_HullConvex ==
    HullDone => (Len(hull) < 3 \/ ConvexCycle(hull))

\* a hull of four vertices has been returned: the two wraparound triples exist
C1_Witness ==
    /\ HullDone
    /\ Len(hull) = 4
    /\ Len(points_slice) = 4

\* C2: every input point lies on or inside the returned polygon: with 3 or
\* more vertices no input point is on the Clockwise side of a hull edge
\* (wraparound included), with 2 vertices every input point is on the segment
\* between them (and a hull of 1 vertex is the only input point).
C2_HullContainsInput ==
    HullDone =>
        LET n == Len(hull)
        IN  \A k \in 1..Len(points_slice) :
                LET p == points_slice[k]
                IN  /\ n >= 3 =>
                        \A i \in 1..n :
                            Orientation(hull[i], hull[Succ(i, n)], p) # "Clockwise"
                    /\ n = 2 => OnSegment(p, hull[1], hull[2])
                    /\ n = 1 => p = hull[1]
                    /\ n >= 1

\* a polygon has been returned for an input with a point that is no vertex
C2_Witness ==
    /\ HullDone
    /\ Len(hull) >= 3
    /\ \E k \in 1..Len(points_slice) : points_slice[k] \notin Range(hull)

\* C3: the hull does not depend on the order of the input: every ordering of
\* the same multiset of points yields the same set of hull points.
C3_HullOrderInvariant ==
    (HullDone /\ Len(points_slice) <= MaxPoints) =>
        \A q \in Orderings(points_slice) :
            Range(ConvexHull(q)) = Range(hull)

\* a polygon returned for an input whose pivot is not its first point
C3_Witness ==
    /\ HullDone
    /\ Len(points_slice) = 4
    /\ Len(hull) >= 3
    /\ points_slice[1] # hull[1]
    /\ points_slice[1] \notin Range(hull)

\* C4: the hull holds exactly the extreme points of the input (points inside
\* the polygon or inside an edge are left out, negative coordinates included),
\* as a counterclockwise cycle; the two stars of the tests yield their five
\* tips, starting at the pivot.
C4_HullIsExtremePoints ==
    HullDone =>
        /\ Range(hull) = ExtremePoints(Range(points_slice))
        /\ Len(hull) >= 3 => ConvexCycle(hull)
        /\ points_slice = Star =>
               hull = << Point(100, 20), Point(140, 30), Point(130, 60),
                         Point(80, 55), Point(60, 25) >>
        /\ points_slice = StarNeg =>
               hull = << Point(100, -20), Point(140, -10), Point(130, 20),
                         Point(80, 15), Point(60, -15) >>

\* the star has been reduced to its five tips
C4_Witness ==
    /\ HullDone
    /\ points_slice = Star
    /\ Len(hull) = 5

\* C5: for a non-empty input the first returned point is the pivot: the input
\* point of minimum y and, among those, of minimum x.
C5_PivotFirst ==
    (HullDone /\ Len(points_slice) > 0) =>
        /\ Len(hull) >= 1
        /\ IsPivotOf(hull[1], Range(points_slice))

\* the pivot was neither the first input point nor alone on its row
C5_Witness ==
    /\ HullDone
    /\ Len(points_slice) >= 3
    /\ points_slice[1] # hull[1]
    /\ \E k \in 1..Len(points_slice) :
           /\ points_slice[k].y = hull[1].y
           /\ points_slice[k].x > hull[1].x

\* C6: inputs of fewer than 3 points are returned as they are: the empty input
\* yields the empty sequence, one point yields that point, two points yield a
\* two-element sequence holding both.
C6_SmallInputs ==
    (HullDone /\ Len(points_slice) < 3) =>
        /\ Len(hull) = Len(points_slice)
        /\ Len(points_slice) = 1 => hull = points_slice
        /\ Len(points_slice) = 2 =>
               \/ hull = points_slice
               \/ hull = <<points_slice[2], points_slice[1]>>

\* two different points were returned in the other order
C6_Witness ==
    /\ HullDone
    /\ Len(points_slice) = 2
    /\ points_slice[1] # points_slice[2]
    /\ hull = <<points_slice[2], points_slice[1]>>

----------------------------------------------------------------------------
(* Properties of approx_poly_dp *)

DpDone == pc = "dp_done"

\* C7: for a curve of 2 or more points and epsilon > 0, the open
\* simplification (closed = false) begins with the first point of the curve
\* and ends with its last point.
C7_EndpointsKept ==
    (DpDone /\ Len(curve) >= 2 /\ epsilon > 0 /\ ~closed) =>
        /\ approx.status = "returned"
        /\ Len(approx.value) >= 2
        /\ approx.value[1] = curve[1]
        /\ approx.value[Len(approx.value)] = curve[Len(curve)]

\* an open curve of four points was split once and simplified to three
C7_Witness ==
    /\ DpDone
    /\ ~closed
    /\ epsilon > 0
    /\ Len(curve) = 4
    /\ approx.status = "returned"
    /\ Len(approx.value) = 3

\* C8: a larger epsilon never returns more points: for a curve of 2 or more
\* points, either value of closed and 0 < epsilon <= e2, the result for e2 is
\* no longer than the result for epsilon.
C8_MonotoneInEpsilon ==
    (DpDone /\ Len(curve) >= 2 /\ epsilon > 0) =>
        /\ approx.status = "returned"
        /\ \A e2 \in Epsilons :
            e2 >= epsilon =>
                Len(ApproxPolyDp(curve, e2, closed, degenerate).value)
                    <= Len(approx.value)

\* a closed curve for which a larger epsilon returns strictly fewer points
C8_Witness ==
    /\ DpDone
    /\ closed
    /\ epsilon > 0
    /\ Len(curve) = 4
    /\ \E e2 \in Epsilons :
           /\ e2 > epsilon
           /\ Len(ApproxPolyDp(curve, e2, closed, degenerate).value)
                  < Len(approx.value)

\* C9: a call with epsilon <= 0 panics and returns nothing, whatever the curve
\* and the closed flag.
C9_EpsilonPanics ==
    (DpDone /\ epsilon <= 0) => approx = Panic

\* a call with epsilon = 0 on a curve of three points has panicked
C9_Witness ==
    /\ DpDone
    /\ epsilon = 0
    /\ Len(curve) = 3
    /\ approx = Panic

----------------------------------------------------------------------------
(* Properties of min_area_rect *)

RectDone == pc = "rect_done"

\* p is inside or on the boundary of the quadrilateral q[1] q[2] q[3] q[4]:
\* on no strict side of one edge and on the other strict side of another, and
\* within the extent of the corners (which settles a quadrilateral of area 0)
InsideQuad(q, p) ==
    /\ \/ \A i \in 1..4 : OrientationVal(q[i], q[Succ(i, 4)], p) >= 0
       \/ \A i \in 1..4 : OrientationVal(q[i], q[Succ(i, 4)], p) <= 0
    /\ \E i \in 1..4 : q[i].x <= p.x
    /\ \E i \in 1..4 : q[i].x >= p.x
    /\ \E i \in 1..4 : q[i].y <= p.y
    /\ \E i \in 1..4 : q[i].y >= p.y

\* the model returns the corners tests::min_area_test expects
RectAgreesWithTest ==
    (RectDone /\ contour = TestHull) =>
        rect = Returned(<< Point(60, 16), Point(141, 24), Point(137, 61), Point(57, 53) >>)

\* C10: for a non-empty contour every input point lies inside or on the
\* boundary of the quadrilateral of the four returned (rounded) corners.
C10_RectContainsInput ==
    (RectDone /\ Len(contour) > 0) =>
        /\ rect.status = "returned"
        /\ \A k \in 1..Len(contour) : InsideQuad(rect.value, contour[k])

\* the number of corners of the returned array that equal p
CornerCount(q, p) == Cardinality({i \in 1..4 : q[i] = p})

\* C11: min_area_rect called with an empty contour panics and returns no
\* corners.
C11_EmptyContourPanics ==
    (RectDone /\ Len(contour) = 0) =>
        /\ rect = Panic
        /\ rect.status # "returned"

\* the call with the empty contour has ended in a panic
C11_Witness ==
    /\ RectDone
    /\ contour = <<>>
    /\ rect.status = "panic"

\* C12: a hull of exactly 1 point yields four corners all equal to that point;
\* a hull of exactly 2 points yields those two points, each twice: the four
\* corners are an arrangement of (hull[0], hull[0], hull[1], hull[1]), a
\* rectangle of area 0, whatever rotating_calipers would make of the hull.
C12_DegenerateHulls ==
    RectDone =>
        LET h == ConvexHull(contour)
        IN  /\ Len(h) = 1 =>
                /\ rect.status = "returned"
                /\ \A i \in 1..4 : rect.value[i] = h[1]
            /\ Len(h) = 2 =>
                /\ rect.status = "returned"
                /\ rect.value \in Orderings(<<h[1], h[1], h[2], h[2]>>)
                /\ h[1] # h[2] =>
                       /\ CornerCount(rect.value, h[1]) = 2
                       /\ CornerCount(rect.value, h[2]) = 2

\* a contour of three collinear points was answered with its two end points,
\* each twice
C12_Witness ==
    /\ RectDone
    /\ Len(contour) = 3
    /\ Len(ConvexHull(contour)) = 2
    /\ ConvexHull(contour)[1] # ConvexHull(contour)[2]
    /\ rect.status = "returned"
    /\ CornerCount(rect.value, ConvexHull(contour)[1]) = 2

----------------------------------------------------------------------------
(* Properties of arc_length *)

ArcDone == pc = "arc_done"

----------------------------------------------------------------------------
(* Properties of the FAST corner detector *)

FastDone == pc = "fast_done"

\* some n circularly contiguous pixels of the circle are all brighter than
\* c + t or all darker than c - t (the definition given with the enum Fast)
HasSection(circle, c, t, n) ==
    \E s \in 0..15 :
        \/ \A k \in 0..(n - 1) : circle[((s + k) % 16) + 1] > c + t
        \/ \A k \in 0..(n - 1) : circle[((s + k) % 16) + 1] < c - t

\* the pixel (x, y) is at least 3 pixels away from every border
Interior(img, x, y) ==
    /\ 3 <= x /\ x + 3 < img.width
    /\ 3 <= y /\ y + 3 < img.height

\* the pixel is a corner by the definition, for sections of n pixels
IsCornerByDefinition(img, t, x, y, n) ==
    HasSection(Circle(img, x, y), GetPixel(img, x, y), t, n)

\* C14: for a pixel at least 3 pixels away from every border,
\* is_corner_fast12 returns true if and only if some 12 circularly contiguous
\* pixels of the circle of 16 around it are all brighter than I + t or all
\* darker than I - t.
C14_Fast12IffSection ==
    (FastDone /\ variant = "Twelve" /\ Interior(image, px, py)) =>
        (is_corner.value = IsCornerByDefinition(image, threshold, px, py, 12))

ScoreDone == pc = "score_done"

\* the run of the loop returns what the function FastCornerScore returns, and
\* max and min stay u8 values with min <= max
ScoreAgrees ==
    /\ pc \in {"score_loop", "score_done"} =>
           (0 <= score_min /\ score_min <= score_max /\ score_max <= 255)
    /\ ScoreDone => score.value = FastCornerScore(image, threshold, px, py, variant)

\* the length of the section the variant asks for
SectionOf(v) == IF v = "Nine" THEN 9 ELSE 12

\* the statement of C15 with is_corner_fast9 / is_corner_fast12 themselves as
\* the corner predicate: started where they hold, fast_corner_score returns
\* the largest threshold at which they still hold
ScoreIsLargestForCode ==
    (ScoreDone /\ IsCorner(image, threshold, px, py, variant)) =>
        /\ threshold <= score.value /\ score.value <= 255
        /\ \A t \in 0..score.value : IsCorner(image, t, px, py, variant)
        /\ \A t \in (score.value + 1)..255 : ~IsCorner(image, t, px, py, variant)

\* C15: for a pixel that is a corner at the given threshold, fast_corner_score
\* terminates and returns the largest threshold t, threshold <= t <= 255, at
\* which the pixel is still a corner, and it returns the same score from every
\* starting threshold at which the pixel is a corner.
C15_ScoreIsLargest ==
    LET n == SectionOf(variant)
    IN  (pc \in {"score_loop", "score_done"}
            /\ IsCornerByDefinition(image, threshold, px, py, n)) =>
            /\ score_min <= score_max
            /\ ScoreDone =>
                /\ threshold <= score.value /\ score.value <= 255
                /\ IsCornerByDefinition(image, score.value, px, py, n)
                /\ \A t \in (score.value + 1)..255 :
                       ~IsCornerByDefinition(image, t, px, py, n)
                /\ \A t \in ScoreThresholds :
                       IsCornerByDefinition(image, t, px, py, n) =>
                           FastCornerScore(image, t, px, py, variant) = score.value

----------------------------------------------------------------------------
(* Properties of match_template and find_extremes *)

MatchDone == pc = "match_done"

\* the scores of an unnormalized result
Nums(res) == [n \in 1..Len(res.data) |-> res.data[n].num]

\* match_template returns what the tests of template_matching.rs expect:
\* the scores of the 3 x 3 image against the 2 x 2 template, and one score 0
\* for a template of the size of the image
MatchAgreesWithTests ==
    MatchDone =>
        /\ (match_image = MatchTestImage /\ template = MatchTestTemplate) =>
               /\ result.status = "returned"
               /\ result.value.width = 2 /\ result.value.height = 2
               /\ method = "SumOfSquaredErrors" => Nums(result.value) = <<14, 14, 3, 1>>
               /\ method = "CrossCorrelation" => Nums(result.value) = <<19, 23, 25, 32>>
               /\ method = "CrossCorrelationNormalized" =>
                      result.value.data =
                          << [num |-> 19, norm_sq |-> 22 * 30], [num |-> 23, norm_sq |-> 30 * 30],
                             [num |-> 25, norm_sq |-> 23 * 30], [num |-> 32, norm_sq |-> 35 * 30] >>
        /\ (match_image = ZeroImage(5, 5) /\ template = ZeroImage(5, 5)) =>
               /\ result.status = "returned"
               /\ Nums(result.value) = <<0>>
        /\ (match_image = ZeroImage(4, 5) /\ template = ZeroImage(5, 5)) => result = Panic
        /\ (match_image = ZeroImage(5, 4) /\ template = ZeroImage(5, 5)) => result = Panic

\* what the assert!s make of the sizes: a panic exactly when the template is
\* wider or higher than the image, and otherwise a result of
\* (image width - template width + 1) by (image height - template height + 1)
MatchSizes ==
    MatchDone =>
        IF template.width > match_image.width \/ template.height > match_image.height
        THEN result = Panic
        ELSE /\ result.status = "returned"
             /\ result.value.width = match_image.width - template.width + 1
             /\ result.value.height = match_image.height - template.height + 1
             /\ Len(result.value.data) = result.value.width * result.value.height

\* C16: match_template panics if the template is not strictly smaller than
\* the image in both dimensions (template width >= image width or template
\* height >= image height); otherwise it returns an image of
\* (image width - template width + 1) by (image height - template height + 1).
C16_MatchPanicsUnlessSmaller ==
    MatchDone =>
        IF template.width >= match_image.width \/ template.height >= match_image.height
        THEN result = Panic
        ELSE /\ result.status = "returned"
             /\ result.value.width = match_image.width - template.width + 1
             /\ result.value.height = match_image.height - template.height + 1

ExtremesDone == pc = "extremes_done"

\* the locations (x, y) of an image
Locations(img) == {<<x, y>> : x \in 0..(img.width - 1), y \in 0..(img.height - 1)}

\* (x, y) order of two locations: by x, then by y
LexLessEq(a, b) == a[1] < b[1] \/ (a[1] = b[1] /\ a[2] <= b[2])

\* row order of two locations: by y, then by x
RowLessEq(a, b) == a[2] < b[2] \/ (a[2] = b[2] /\ a[1] <= b[1])

\* find_extremes returns what tests::test_find_extremes expects
ExtremesAgreesWithTest ==
    (ExtremesDone /\ extremes_image = ExtremesTestImage) =>
        extremes = Returned([max_value |-> 15, min_value |-> 1,
                             max_value_location |-> <<1, 1>>,
                             min_value_location |-> <<3, 0>>])

\* the extremes are the largest and the smallest value, each located at the
\* first place in row order (by y, then by x) where it occurs
ExtremesFirstInRowOrder ==
    (ExtremesDone /\ extremes_image.width > 0 /\ extremes_image.height > 0) =>
        LET e == extremes.value
            L == Locations(extremes_image)
        IN  /\ extremes.status = "returned"
            /\ \A l \in L : GetPixel(extremes_image, l[1], l[2]) <= e.max_value
            /\ \A l \in L : GetPixel(extremes_image, l[1], l[2]) >= e.min_value
            /\ \A l \in L : GetPixel(extremes_image, l[1], l[2]) = e.max_value
                   => RowLessEq(e.max_value_location, l)
            /\ \A l \in L : GetPixel(extremes_image, l[1], l[2]) = e.min_value
                   => RowLessEq(e.min_value_location, l)

\* C17: for every non-empty image find_extremes returns the largest and the
\* smallest pixel value, each with a location where it occurs, and of several
\* such locations the lexicographically smallest (x, y).
C17_ExtremesLexSmallest ==
    (ExtremesDone /\ extremes_image.width > 0 /\ extremes_image.height > 0) =>
        LET e == extremes.value
            L == Locations(extremes_image)
        IN  /\ extremes.status = "returned"
            /\ e.max_value_location \in L /\ e.min_value_location \in L
            /\ GetPixel(extremes_image, e.max_value_location[1], e.max_value_location[2])
                   = e.max_value
            /\ GetPixel(extremes_image, e.min_value_location[1], e.min_value_location[2])
                   = e.min_value
            /\ \A l \in L : GetPixel(extremes_image, l[1], l[2]) <= e.max_value
            /\ \A l \in L : GetPixel(extremes_image, l[1], l[2]) >= e.min_value
            /\ \A l \in L : GetPixel(extremes_image, l[1], l[2]) = e.max_value
                   => LexLessEq(e.max_value_location, l)
            /\ \A l \in L : GetPixel(extremes_image, l[1], l[2]) = e.min_value
                   => LexLessEq(e.min_value_location, l)

----------------------------------------------------------------------------
(* Properties of the steps of rotating_calipers and of the Graham scan *)

\* the direction angle of the edge from the i-th vertex of the polygon h to
\* the next one, the edge from the last vertex to the first included
PolygonEdgeAngle(h, i) ==
    LET from == h[i]
        to == h[Succ(i, Len(h))]
    IN  EdgeAngle(to.x - from.x, to.y - from.y)

\* C18: for a hull of n >= 3 vertices the candidate angles of
\* rotating_calipers come from every edge of the hull polygon: each of the n
\* pairs of consecutive vertices, the pair (last, first) included, gives its
\* direction angle to the list before deduplication.
C18_EveryEdgeContributes ==
    (RectDone /\ Len(ConvexHull(contour)) >= 3) =>
        LET h == ConvexHull(contour)
            angles == EdgeAngles(h)
        IN  /\ Len(angles) = Len(h)
            /\ \A i \in 1..Len(h) : angles[i] = PolygonEdgeAngle(h, i)

\* the scan of convex_hull is under way or over (the empty input returns
\* before there is a stack)
Scanning ==
    \/ pc = "hull_scan"
    \/ pc = "hull_done" /\ Len(points_slice) > 0

\* q is nearer to the pivot than an input point on the same ray from the pivot
NearerOnRay(q, sp, input) ==
    /\ q # sp
    /\ \E k \in 1..Len(input) :
           /\ Orientation(sp, q, input[k]) = "Collinear"
           /\ DistanceLess(sp, q, input[k])

\* the collinear pass leaves in remaining_points only the farthest of the
\* points of each ray from the pivot (and at most one copy of the pivot)
RemainingAreFarthest ==
    Scanning =>
        \A k \in 1..Len(remaining_points) :
            ~NearerOnRay(remaining_points[k], start_point, points_slice)

\* C19: of the sorted points on one ray from the pivot only the farthest is
\* used to fill the scan stack: a point collinear with the pivot and a farther
\* input point on the same ray is never pushed onto the stack.
C19_NearerCollinearNeverPushed ==
    Scanning =>
        \A k \in 1..Len(stack) : ~NearerOnRay(stack[k], start_point, points_slice)

\* C20: throughout the scan the pivot is the bottom element of the stack (the
\* stack is popped only while it holds at least two points) and every three
\* consecutive stack elements turn strictly CounterClockwise.
C20_ScanInvariant ==
    Scanning =>
        /\ Len(stack) >= 1
        /\ stack[1] = start_point
        /\ \A i \in 1..(Len(stack) - 2) :
               Orientation(stack[i], stack[i + 1], stack[i + 2]) = "CounterClockwise"

\* in the middle of a scan, after a pop and a push: three points have been
\* taken and fewer are on the stack above the pivot
C20_Witness ==
    /\ pc = "hull_scan"
    /\ next = 4
    /\ next <= Len(points)
    /\ Len(stack) = 3

----------------------------------------------------------------------------
(* Further properties of approx_poly_dp *)

\* the open simplification of the curve of the call
OpenResult == ApproxPolyDp(curve, epsilon, FALSE, degenerate)

\* C21: for a curve of 2 or more points and epsilon > 0 the closed
\* simplification (closed = true) is the open simplification (closed = false)
\* with its final point removed: exactly one point is dropped, at the top
\* level only, the recursive calls all being made with closed = false.
C21_ClosedDropsLast ==
    (DpDone /\ Len(curve) >= 2 /\ epsilon > 0 /\ closed) =>
        /\ approx.status = "returned"
        /\ OpenResult.status = "returned"
        /\ Len(approx.value) = Len(OpenResult.value) - 1
        /\ approx.value = SubSeq(OpenResult.value, 1, Len(OpenResult.value) - 1)

\* a closed curve of four points was split and three of its points are kept
\* after the drop
C21_Witness ==
    /\ DpDone
    /\ closed
    /\ epsilon > 0
    /\ Len(curve) = 4
    /\ approx.status = "returned"
    /\ Len(approx.value) = 3

\* every range that approx_poly_dp splits while simplifying cv is split at an
\* index strictly between its first and its last index (1-based: 1 and
\* Len(cv)); the two halves are then looked into in turn
RECURSIVE SplitsInside(_, _, _)
SplitsInside(cv, eps, mode) ==
    LET far == Farthest(cv, mode)
    IN  ExceedsEpsilon(far.dmax, eps) =>
            /\ 1 < far.index
            /\ far.index < Len(cv)
            /\ SplitsInside(SubSeq(cv, 1, far.index), eps, mode)
            /\ SplitsInside(SubSeq(cv, far.index, Len(cv)), eps, mode)

\* the number of ranges approx_poly_dp splits while simplifying cv
RECURSIVE SplitCount(_, _, _)
SplitCount(cv, eps, mode) ==
    LET far == Farthest(cv, mode)
    IN  IF ExceedsEpsilon(far.dmax, eps)
        THEN 1 + SplitCount(SubSeq(cv, 1, far.index), eps, mode)
               + SplitCount(SubSeq(cv, far.index, Len(cv)), eps, mode)
        ELSE 0

\* C22: whenever approx_poly_dp splits a range, the split index lies strictly
\* between the first and the last index of the range (the scan for the
\* farthest point never selects an end point), so both recursive calls get a
\* strictly shorter range of 2 or more points and the call returns, for every
\* curve of 2 or more points.
C22_SplitStrictlyInside ==
    (Len(curve) >= 2 /\ epsilon > 0) =>
        /\ SplitsInside(curve, epsilon, degenerate)
        /\ DpDone => approx.status = "returned"

\* a call has returned after splitting the curve and then one of its halves
C22_Witness ==
    /\ DpDone
    /\ epsilon > 0
    /\ Len(curve) = 4
    /\ approx.status = "returned"
    /\ SplitCount(curve, epsilon, degenerate) = 2

----------------------------------------------------------------------------
(* Properties of search_span *)

SpanDone == pc = "span_done"

\* the circle, read circularly, has a run of n elements or more that all
\* satisfy f: there is a start from which n elements in a row do
HasRun(ok, n) ==
    \E s \in 1..16 :
        \A k \in 0..(n - 1) : ok[((s - 1 + k) % 16) + 1]

\* the number of elements of the circle that do not satisfy f
FailCount(ok) == Cardinality({k \in 1..16 : ~ok[k]})

\* what search_span computes: a run is reported only when it is met before
\* the (16 - length)-th failing element, or before the first where length = 16
SpanAsCoded ==
    (SpanDone /\ span_length <= 16 /\ span = Returned(TRUE)) =>
        HasRun(circle_ok, span_length)

\* C23: search_span(circle, length, f) with 1 <= length <= 16 returns true if
\* and only if the circle of 16, read circularly (index 15 next to index 0),
\* has a contiguous run of at least `length` elements that all satisfy f.
C23_SpanIffRun ==
    (SpanDone /\ 1 <= span_length /\ span_length <= 16) =>
        span = Returned(HasRun(circle_ok, span_length))

----------------------------------------------------------------------------
(* Further properties of min_area_rect *)

\* the four corners rotating_calipers has recorded for the contour of the call
Recorded == BestCorners(ConvexHull(contour))

\* a.x <= b.x and a.y <= b.y on two recorded corners
XAtMost(a, b) == a.xn * b.d <= b.xn * a.d
YAtMost(a, b) == a.yn * b.d <= b.yn * a.d

\* the recorded corners c taken in the order f as (TL, TR, BR, BL) and
\* rounded: TL down and down, TR up and down, BR up and up, BL down and up
RoundedAs(c, f) ==
    << Point(Floor(c[f[1]].xn, c[f[1]].d), Floor(c[f[1]].yn, c[f[1]].d)),
       Point(Ceil(c[f[2]].xn, c[f[2]].d), Floor(c[f[2]].yn, c[f[2]].d)),
       Point(Ceil(c[f[3]].xn, c[f[3]].d), Ceil(c[f[3]].yn, c[f[3]].d)),
       Point(Floor(c[f[4]].xn, c[f[4]].d), Ceil(c[f[4]].yn, c[f[4]].d)) >>

\* C24: the output of rotating_calipers uses each of the four recorded corners
\* exactly once: TL and BL are two corners of lowest x, TR and BR the two of
\* highest x, and within each pair the corner of lesser y is the top one (TL,
\* TR) and the corner of greater y the bottom one (BL, BR), also when two
\* corners have the same x or the same y.
C24_CornersAssigned ==
    (RectDone /\ Len(ConvexHull(contour)) >= 3) =>
        /\ rect.status = "returned"
        /\ \E f \in Permutations(1..4) :
               /\ rect.value = RoundedAs(Recorded, f)
               /\ \A lo \in {f[1], f[4]}, hi \in {f[2], f[3]} :
                      XAtMost(Recorded[lo], Recorded[hi])
               /\ YAtMost(Recorded[f[1]], Recorded[f[4]])
               /\ YAtMost(Recorded[f[2]], Recorded[f[3]])

\* corners have been assigned for a rectangle standing on a corner: two of
\* its recorded corners have the same x and two the same y, and no side of it
\* is parallel to an axis
C24_Witness ==
    /\ RectDone
    /\ Len(ConvexHull(contour)) >= 3
    /\ rect.status = "returned"
    /\ \E i, j \in 1..4 :
           /\ i # j
           /\ XAtMost(Recorded[i], Recorded[j]) /\ XAtMost(Recorded[j], Recorded[i])
           /\ ~YAtMost(Recorded[i], Recorded[j])
    /\ \E i, j \in 1..4 :
           /\ i # j
           /\ YAtMost(Recorded[i], Recorded[j]) /\ YAtMost(Recorded[j], Recorded[i])
           /\ ~XAtMost(Recorded[i], Recorded[j])
    /\ \A i, j \in 1..4 :
           (XAtMost(Recorded[i], Recorded[j]) /\ XAtMost(Recorded[j], Recorded[i])
            /\ YAtMost(Recorded[i], Recorded[j]) /\ YAtMost(Recorded[j], Recorded[i]))
               => i = j
    /\ Cardinality({i \in 1..4 :
           \A j \in 1..4 : XAtMost(Recorded[i], Recorded[j])}) = 1

----------------------------------------------------------------------------
(* The distance kept by approx_poly_dp *)

\* the squared distance of p from the line through a and b is at most
\* epsilon^2; where a and b coincide there is no line and the distance from
\* the point a stands in for it
NearChord(p, a, b, eps) ==
    LET la == a.y - b.y
        lb == b.x - a.x
        lc == a.x * b.y - b.x * a.y
        den == la * la + lb * lb
        num == la * p.x + lb * p.y + lc
    IN  IF den # 0
        THEN num * num * EpsScale * EpsScale <= eps * eps * den
        ELSE DistanceSq(p, a) * EpsScale * EpsScale <= eps * eps

\* the strictly increasing index sequences of 1..n that begin at 1 and end at n
IndexChains(n) ==
    {idx \in SeqsUpTo(1..n, n) :
        /\ Len(idx) >= 2
        /\ idx[1] = 1
        /\ idx[Len(idx)] = n
        /\ \A k \in 1..(Len(idx) - 1) : idx[k] < idx[k + 1]}

\* res is cv at the indices idx, and every point of cv between two consecutive
\* indices is near the chord of the two points kept there
KeepsWithin(res, cv, idx, eps) ==
    /\ Len(res) = Len(idx)
    /\ \A k \in 1..Len(idx) : res[k] = cv[idx[k]]
    /\ \A k \in 1..(Len(idx) - 1) :
           \A j \in (idx[k] + 1)..(idx[k + 1] - 1) :
               NearChord(cv[j], cv[idx[k]], cv[idx[k + 1]], eps)

\* C25: for a curve of 2 or more points (curves whose first and last points
\* coincide included) and epsilon > 0, the open simplification is the curve at
\* strictly increasing indices, and every curve point between two consecutive
\* retained points is at perpendicular distance at most epsilon from the line
\* through those two retained points.
C25_WithinEpsilon ==
    (DpDone /\ Len(curve) >= 2 /\ epsilon > 0 /\ ~closed) =>
        /\ approx.status = "returned"
        /\ \E idx \in IndexChains(Len(curve)) :
               KeepsWithin(approx.value, curve, idx, epsilon)

\* the same, for the calls in which no chord of length 0 is met or the
\* distance from such a chord is the distance from its point
WithinEpsilonOffDegenerate ==
    (DpDone /\ Len(curve) >= 2 /\ epsilon > 0 /\ ~closed
        /\ degenerate = "PointDistance") =>
        /\ approx.status = "returned"
        /\ \E idx \in IndexChains(Len(curve)) :
               KeepsWithin(approx.value, curve, idx, epsilon)

----------------------------------------------------------------------------
(* Further properties of convex_hull *)

\* the comparator of the sort is about to be used on `points`, the input
\* without the pivot
Sorting == pc = "hull_sort"

\* the comparator answers two different points consistently
ComparatorConsistentOnDistinct ==
    Sorting =>
        \A i, j \in 1..Len(points) :
            points[i] # points[j] =>
                (Compare(start_point, points[i], points[j]) = "Less"
                    <=> Compare(start_point, points[j], points[i]) = "Greater")

\* C26: the comparator convex_hull sorts the non-pivot points with is a
\* consistent ordering: for any two of those points a and b, compare(a, b) is
\* Less exactly when compare(b, a) is Greater, also when the input holds
\* duplicate points (equal points, at equal distance from the pivot).
C26_ComparatorConsistent ==
    Sorting =>
        \A i, j \in 1..Len(points) :
            i # j =>
                (Compare(start_point, points[i], points[j]) = "Less"
                    <=> Compare(start_point, points[j], points[i]) = "Greater")

\* a hull returned for an input of two or more different points has no point
\* twice
NoDuplicatesOffCopies ==
    (HullDone /\ Cardinality(Range(points_slice)) >= 2) =>
        \A i, j \in 1..Len(hull) : i # j => hull[i] # hull[j]

\* C27: the sequence convex_hull returns never holds the same point twice,
\* whatever the input: inputs with duplicate points and inputs made of copies
\* of one point included.
C27_HullNoDuplicates ==
    HullDone =>
        \A i, j \in 1..Len(hull) : i # j => hull[i] # hull[j]

----------------------------------------------------------------------------
(* Properties of orientation *)

OrientDone == pc = "orient_done"

\* every coordinate of the three arguments lies in -MaxCoord..MaxCoord
InRange ==
    \A pt \in {orient_p, orient_q, orient_r} :
        /\ (0 - MaxCoord) <= pt.x /\ pt.x <= MaxCoord
        /\ (0 - MaxCoord) <= pt.y /\ pt.y <= MaxCoord

\* C28: for points p, q, r with coordinates in [-16383, 16383] the value
\* (q.y-p.y)*(r.x-q.x) - (q.x-p.x)*(r.y-q.y) that orientation computes in
\* signed 32-bit arithmetic is the exact integer value, no operation
\* overflowing on the way, so the orientation returned is the exact sign of
\* the cross product.
C28_OrientationExact ==
    (OrientDone /\ InRange) =>
        /\ ~OrientationOverflows(orient_p, orient_q, orient_r)
        /\ orient.status = "returned"
        /\ orient.value.val = OrientationVal(orient_p, orient_q, orient_r)
        /\ orient.value.orientation = Orientation(orient_p, orient_q, orient_r)

\* orientation has returned the value of largest magnitude the range allows:
\* both differences of one product are 2 * MaxCoord and the other product is 0
C28_Witness ==
    /\ OrientDone
    /\ InRange
    /\ orient.status = "returned"
    /\ orient.value.val = 0 - (4 * MaxCoord * MaxCoord)
    /\ orient.value.orientation = "CounterClockwise"

====
